---- MODULE Spec2Model ----
(***************************************************************************)
(* The entity-component store of ixa_core: the entity table (EntityData),  *)
(* its property columns, the per-property lazy indexes and the query       *)
(* engine (src/entity/*.rs, src/property.rs, src/context.rs).              *)
(*                                                                         *)
(* Option<X> is modelled as a sequence: None is <<>> and Some(x) is <<x>>. *)
(* A panic (assert!, unwrap on None, panic!) aborts the program: the       *)
(* operators return a record with a panic flag and the actions set         *)
(* `panicked`, after which no operation runs.                              *)
(*                                                                         *)
(* Every extension operation is an operator from the context (and its      *)
(* arguments) to the context after it and its return value, so that what   *)
(* an operation returns in a state is written op(Table, args).ret.         *)
(***************************************************************************)
EXTENDS Integers, Sequences, FiniteSets, TLC

\* ---- bounds of the model ------------------------------------------------
\* The entities created, the arity of a query or initialization tuple, and
\* the property types a client program declares.
MaxEntities == 2
MaxTupleLen == 2
MaxProperties == 2
\* The calls of Hasher::write that the hash of one value makes.
MaxWrites == 3

\* ---- Option ---------------------------------------------------------------
None == <<>>
Some(x) == <<x>>
IsSome(o) == Len(o) = 1
IsNone(o) == Len(o) = 0
Unwrap(o) == o[1]

\* ---- the properties declared by the client program -------------------------
\* Age(u8) and RiskCategory {High = 0, Low = 1} are stored properties,
\* Senior(bool) is derived from Age (tests of src/entity/query.rs).
\* AtRisk(bool) is derived from Senior and RiskCategory: a derived property
\* with a dependency that is itself derived.
\* Name(String) is a stored property whose declaration overrides
\* Property::is_required to return true.
\* Values are the integers the Rust values hold: the u8 of Age, the
\* discriminant of RiskCategory, the bool of Senior and AtRisk as 0 / 1, and for Name
\* the byte of the one-character string "X".
StoredProperties == {"Age", "RiskCategory", "Name"}
DerivedProperties == {"Senior", "AtRisk"}
Properties == StoredProperties \cup DerivedProperties

Values(T) ==
  CASE T = "Age" -> {64, 65}
    [] T = "RiskCategory" -> {0, 1}
    [] T = "Senior" -> {0, 1}
    [] T = "AtRisk" -> {0, 1}
    [] T = "Name" -> {88}

is_derived(T) == T \in DerivedProperties

is_required(T) == T = "Name"

\* The dependency list of a derived property declaration.
DeclaredDependencies(T) ==
  CASE T = "Senior" -> <<"Age">>
    [] T = "AtRisk" -> <<"Senior", "RiskCategory">>
    [] OTHER -> <<>>

\* The closure of a derived property declaration, applied to the values of
\* its dependencies: Senior = |age| Some(Senior(age >= Age(65))),
\* AtRisk = |senior, risk| Some(AtRisk(senior.0 && risk == RiskCategory::High)).
derive_fn(T, args) ==
  CASE T = "Senior" -> Some(IF args[1] >= 65 THEN 1 ELSE 0)
    [] T = "AtRisk" -> Some(IF args[1] = 1 /\ args[2] = 0 THEN 1 ELSE 0)
    [] OTHER -> None

\* collect_dependencies pushing the declared dependencies as they are, a
\* derived one included, without expanding it.
collect_dependencies_declared(T) ==
  IF is_derived(T) THEN DeclaredDependencies(T) ELSE <<T>>

RECURSIVE collect_dependencies(_)

collect_dependencies(T) ==
  IF is_derived(T)
  THEN LET deps == DeclaredDependencies(T)
           F[i \in 0..Len(deps)] ==
             IF i = 0 THEN <<>> ELSE F[i - 1] \o collect_dependencies(deps[i])
       IN F[Len(deps)]
  ELSE <<T>>

property_info(T) ==
  [name |-> T, type_id |-> T, is_required |-> is_required(T), is_derived |-> is_derived(T)]

\* ---- IndexValue -------------------------------------------------------------
\* The bytes that `val.hash(&mut hasher)` feeds to IndexValueHasher::write:
\* a u8 or a bool is one byte, the discriminant of an enum is an isize
\* (8 bytes, little-endian), a string is its bytes followed by 0xff.
HashBytes(T, v) ==
  CASE T = "Age" -> <<v>>
    [] T = "Senior" -> <<v>>
    [] T = "AtRisk" -> <<v>>
    [] T = "RiskCategory" -> <<v, 0, 0, 0, 0, 0, 0, 0>>
    [] T = "Name" -> <<v, 255>>


\* IndexValue::new with the boundary one byte early: a 16-byte stream is no
\* longer stored inline.
IndexValue_new_below16(buf) ==
  IF Len(buf) < 16
  THEN [kind |-> "Fixed", bytes |-> [i \in 1..16 |-> IF i <= Len(buf) THEN buf[i] ELSE 0]]
  ELSE [kind |-> "Variable", bytes |-> buf]

\* IndexValue::new. Fixed(u128::from_le_bytes(tmp)) is kept as the 16 bytes
\* of tmp: the u128 and its little-endian bytes determine each other.
IndexValue_new(buf) ==
  IF Len(buf) <= 16
  THEN [kind |-> "Fixed", bytes |-> [i \in 1..16 |-> IF i <= Len(buf) THEN buf[i] ELSE 0]]
  ELSE [kind |-> "Variable", bytes |-> buf]

IndexValueOf(T, v) == IndexValue_new(HashBytes(T, v))


\* The bytes hashed for an Option<T>: the derived Hash writes the
\* discriminant (an isize, 8 bytes little-endian: 0 for None, 1 for Some)
\* and then, for Some, the bytes of the value.
HashBytesOption(T, value) ==
  IF value = <<>>
  THEN <<0, 0, 0, 0, 0, 0, 0, 0>>
  ELSE <<1, 0, 0, 0, 0, 0, 0, 0>> \o HashBytes(T, value[1])

IndexValueOfOption(T, value) == IndexValue_new(HashBytesOption(T, value))

\* IndexValueHasher: new has an empty buffer, write appends the slice.
IndexValueHasher_new == <<>>

write(buffer, bytes) == buffer \o bytes

\* ---- state --------------------------------------------------------------------
VARIABLES
  data_plugins,                   \* Context.data_plugins: the plugin types present
  is_initializing,                \* EntityData.is_initializing
  entity_count,                   \* EntityData.entity_count
  properties_map,                 \* EntityData.properties_map: T -> PropertyStore
  registered_derived_properties,  \* EntityData.registered_derived_properties
  dependency_map,                 \* EntityData.dependency_map
  property_indexes,               \* EntityData.property_indexes: T -> Index
  property_metadata,              \* EntityData.property_metadata
  panicked,                       \* the program was aborted by a panic
  declared,                       \* the property types the client program declares
  buf,                            \* IndexValueHasher.buf of a hasher being fed
  writes                          \* the calls of Hasher::write on that hasher so far

vars == <<data_plugins, is_initializing, entity_count, properties_map,
          registered_derived_properties, dependency_map, property_indexes,
          property_metadata, panicked, declared, buf, writes>>

\* The context as one value, for the operators below.
Table ==
  [data_plugins |-> data_plugins,
   is_initializing |-> is_initializing,
   entity_count |-> entity_count,
   properties_map |-> properties_map,
   registered_derived_properties |-> registered_derived_properties,
   dependency_map |-> dependency_map,
   property_indexes |-> property_indexes,
   property_metadata |-> property_metadata]

EmptyMap == [x \in {} |-> {}]

\* Context::new: no plugin; the fields are those of EntityData::default,
\* which the first get_data_container_mut installs.
Context_new ==
  [data_plugins |-> {},
   is_initializing |-> FALSE,
   entity_count |-> 0,
   properties_map |-> EmptyMap,
   registered_derived_properties |-> <<>>,
   dependency_map |-> EmptyMap,
   property_indexes |-> EmptyMap,
   property_metadata |-> <<>>]

Range(s) == {s[i] : i \in 1..Len(s)}

Ok(t, r) == [t |-> t, panic |-> FALSE, ret |-> r]
Panic(t) == [t |-> t, panic |-> TRUE, ret |-> None]

\* ---- Context --------------------------------------------------------------------
get_data_container_mut(t) == [t EXCEPT !.data_plugins = @ \cup {"EntityData"}]

has_data_container(t) == "EntityData" \in t.data_plugins

get_entity_count(t) == IF has_data_container(t) THEN t.entity_count ELSE 0

\* ---- PropertyStore / EntityData --------------------------------------------------
PropertyStore_new == [is_required |-> FALSE, values |-> <<>>]

get_property_ref(t, T, entity_id) ==
  IF T \in DOMAIN t.properties_map
  THEN LET store == t.properties_map[T] IN
       IF entity_id >= Len(store.values) THEN None ELSE store.values[entity_id + 1]
  ELSE None

\* EntityData::get_property_mut without the assertion on is_derived.
EntityData_get_property_mut_unasserted(t, T, entity_id) ==
  LET store == IF T \in DOMAIN t.properties_map THEN t.properties_map[T] ELSE PropertyStore_new
      grown == IF entity_id >= Len(store.values)
               THEN store.values \o [i \in 1..(entity_id + 1 - Len(store.values)) |-> None]
               ELSE store.values
      pm == [U \in DOMAIN t.properties_map \cup {T} |->
               IF U = T THEN [store EXCEPT !.values = grown] ELSE t.properties_map[U]]
  IN Ok([t EXCEPT !.properties_map = pm], grown[entity_id + 1])


\* EntityData::get_property_mut resizing the column to idx + 1 whatever its
\* length: a longer column is cut down to the entity.
EntityData_get_property_mut_resizing(t, T, entity_id) ==
  IF is_derived(T) THEN Panic(t)
  ELSE
    LET store == IF T \in DOMAIN t.properties_map THEN t.properties_map[T] ELSE PropertyStore_new
        grown == [i \in 1..(entity_id + 1) |->
                    IF i <= Len(store.values) THEN store.values[i] ELSE None]
        pm == [U \in DOMAIN t.properties_map \cup {T} |->
                 IF U = T THEN [store EXCEPT !.values = grown] ELSE t.properties_map[U]]
    IN Ok([t EXCEPT !.properties_map = pm], grown[entity_id + 1])

\* EntityData::get_property_mut: rejects a derived T, creates the column of
\* T when it is missing and grows it with None to hold entity_id; ret is the
\* slot the returned reference points to.
EntityData_get_property_mut(t, T, entity_id) ==
  IF is_derived(T) THEN Panic(t)
  ELSE
    LET store == IF T \in DOMAIN t.properties_map THEN t.properties_map[T] ELSE PropertyStore_new
        grown == IF entity_id >= Len(store.values)
                 THEN store.values \o [i \in 1..(entity_id + 1 - Len(store.values)) |-> None]
                 ELSE store.values
        pm == [U \in DOMAIN t.properties_map \cup {T} |->
                 IF U = T THEN [store EXCEPT !.values = grown] ELSE t.properties_map[U]]
    IN Ok([t EXCEPT !.properties_map = pm], grown[entity_id + 1])

\* `*property = Some(value)` through the reference get_property_mut returned.
write_property(t, T, entity_id, value) ==
  [t EXCEPT !.properties_map[T].values[entity_id + 1] = Some(value)]

EntityData_set_property(t, T, entity_id, value) ==
  IF is_derived(T) THEN Panic(t)
  ELSE LET property == EntityData_get_property_mut(t, T, entity_id) IN
       IF property.panic THEN property
       ELSE Ok(write_property(property.t, T, entity_id, value), None)

\* EntityData::add_entity returning the count after the increment.
EntityData_add_entity_after(t) == Ok([t EXCEPT !.entity_count = @ + 1], t.entity_count + 1)

EntityData_add_entity(t) == Ok([t EXCEPT !.entity_count = @ + 1], t.entity_count)

\* ---- registration (ContextEntityExtInternal, Property::register) ------------------
is_registered(t, T) == T \in Range(t.registered_derived_properties)

Index_new == [lookup |-> None, max_indexed |-> 0]

register_indexer(t, T) ==
  LET c == get_data_container_mut(t) IN
  IF T \in DOMAIN c.property_indexes THEN Panic(c)
  ELSE Ok([c EXCEPT !.property_indexes =
             [U \in DOMAIN c.property_indexes \cup {T} |->
                IF U = T THEN Index_new ELSE c.property_indexes[U]]], None)

register_nonderived_property(t, T) ==
  LET c == get_data_container_mut(t)
      info == property_info(T)
  IN register_indexer(
       [c EXCEPT !.registered_derived_properties = Append(@, info.type_id),
                 !.property_metadata = Append(@, info)], T)

\* dependency_map.entry(dependency).or_default().push(type_id), for each
\* collected dependency in turn.
push_dependent(dm, dependency, type_id) ==
  [U \in DOMAIN dm \cup {dependency} |->
     IF U = dependency
     THEN Append(IF dependency \in DOMAIN dm THEN dm[dependency] ELSE <<>>, type_id)
     ELSE dm[U]]

register_derived_property(t, T) ==
  LET c == get_data_container_mut(t) IN
  IF T \in DOMAIN c.property_indexes THEN Panic(c)
  ELSE
    LET dependencies == collect_dependencies(T)
        DM[i \in 0..Len(dependencies)] ==
          IF i = 0 THEN c.dependency_map
          ELSE push_dependent(DM[i - 1], dependencies[i], T)
    IN register_nonderived_property(
         [c EXCEPT !.dependency_map = DM[Len(dependencies)]], T)

\* Property::register without the test of is_registered.
register_unchecked(t, T) ==
  LET c == get_data_container_mut(t) IN
  IF is_derived(T) THEN register_derived_property(c, T)
  ELSE register_nonderived_property(c, T)

\* Property::register and its override by define_derived_property!.
register(t, T) ==
  LET c == get_data_container_mut(t) IN
  IF is_registered(c, T) THEN Ok(c, None)
  ELSE IF is_derived(T) THEN register_derived_property(c, T)
  ELSE register_nonderived_property(c, T)

\* compute of a derived property answering None, instead of unwrapping,
\* when a dependency has no value.
RECURSIVE compute_or_none(_, _, _)
compute_or_none(t, T, entity_id) ==
  IF is_derived(T)
  THEN LET deps == DeclaredDependencies(T)
           vals == [i \in 1..Len(deps) |-> compute_or_none(t, deps[i], entity_id)]
       IN IF \E i \in 1..Len(deps) : vals[i].panic THEN Panic(t)
          ELSE IF \E i \in 1..Len(deps) : IsNone(vals[i].ret) THEN Ok(t, None)
          ELSE Ok(t, derive_fn(T, [i \in 1..Len(deps) |-> Unwrap(vals[i].ret)]))
  ELSE IF ~has_data_container(t) THEN Panic(t)
  ELSE Ok(t, get_property_ref(t, T, entity_id))

\* ---- Property::compute ----------------------------------------------------------------
\* The stored properties read their column; a derived property unwraps the
\* value of each dependency and applies its closure.
RECURSIVE compute(_, _, _)
compute(t, T, entity_id) ==
  IF is_derived(T)
  THEN LET deps == DeclaredDependencies(T)
           vals == [i \in 1..Len(deps) |-> compute(t, deps[i], entity_id)]
       IN IF \E i \in 1..Len(deps) : vals[i].panic \/ IsNone(vals[i].ret)
          THEN Panic(t)
          ELSE Ok(t, derive_fn(T, [i \in 1..Len(deps) |-> Unwrap(vals[i].ret)]))
  ELSE IF ~has_data_container(t) THEN Panic(t)
  ELSE Ok(t, get_property_ref(t, T, entity_id))

get_property_internal(t, T, entity_id) == compute(t, T, entity_id)

\* ---- Index ----------------------------------------------------------------------------------
\* Index::insert: unwraps lookup, adds entity_id to the bucket of index_value,
\* creating the bucket when absent.
Index_insert(index, entity_id, index_value) ==
  IF IsNone(index.lookup) THEN [index |-> index, panic |-> TRUE]
  ELSE
    LET map == Unwrap(index.lookup)
        map2 == [k \in DOMAIN map \cup {index_value} |->
                   IF k = index_value
                   THEN (IF k \in DOMAIN map THEN map[k] ELSE {}) \cup {entity_id}
                   ELSE map[k]]
    IN [index |-> [index EXCEPT !.lookup = Some(map2)], panic |-> FALSE]

\* Index::add_entity leaving out an entity that has no value.
Index_add_entity_skip(index, t, T, entity_id) ==
  LET value == compute(t, T, entity_id) IN
  IF value.panic \/ IsNone(value.ret) THEN [index |-> index, panic |-> FALSE]
  ELSE Index_insert(index, entity_id, IndexValueOf(T, Unwrap(value.ret)))

Index_add_entity(index, t, T, entity_id) ==
  LET value == compute(t, T, entity_id) IN
  IF value.panic \/ IsNone(value.ret) THEN [index |-> index, panic |-> TRUE]
  ELSE Index_insert(index, entity_id, IndexValueOf(T, Unwrap(value.ret)))

\* index_unindexed_entities leaving max_indexed where it was.
index_unindexed_entities_no_advance(index, t, T) ==
  IF IsNone(index.lookup) THEN [index |-> index, panic |-> FALSE]
  ELSE
    LET current_pop == get_entity_count(t)
        Loop[id \in (index.max_indexed - 1)..(current_pop - 1)] ==
          IF id < index.max_indexed THEN [index |-> index, panic |-> FALSE]
          ELSE IF Loop[id - 1].panic THEN Loop[id - 1]
          ELSE Index_add_entity(Loop[id - 1].index, t, T, id)
    IN IF current_pop <= index.max_indexed
       THEN [index |-> index, panic |-> FALSE]
       ELSE Loop[current_pop - 1]


\* index_unindexed_entities without the early return on a disabled index:
\* nothing is inserted while lookup is None, but max_indexed advances.
index_unindexed_entities_counting_disabled(index, t, T) ==
  LET current_pop == get_entity_count(t)
      Loop[id \in (index.max_indexed - 1)..(current_pop - 1)] ==
        IF id < index.max_indexed THEN [index |-> index, panic |-> FALSE]
        ELSE IF Loop[id - 1].panic THEN Loop[id - 1]
        ELSE Index_add_entity(Loop[id - 1].index, t, T, id)
      done == IF current_pop <= index.max_indexed \/ IsNone(index.lookup)
              THEN [index |-> index, panic |-> FALSE]
              ELSE Loop[current_pop - 1]
  IN IF done.panic THEN done
     ELSE [index |-> [done.index EXCEPT !.max_indexed = current_pop], panic |-> FALSE]


\* index_unindexed_entities walking all entities from id 0 on every call.
index_unindexed_entities_from_zero(index, t, T) ==
  IF IsNone(index.lookup) THEN [index |-> index, panic |-> FALSE]
  ELSE
    LET current_pop == get_entity_count(t)
        Loop[id \in (-1)..(current_pop - 1)] ==
          IF id < 0 THEN [index |-> index, panic |-> FALSE]
          ELSE IF Loop[id - 1].panic THEN Loop[id - 1]
          ELSE Index_add_entity(Loop[id - 1].index, t, T, id)
        done == Loop[current_pop - 1]
    IN IF done.panic THEN done
       ELSE [index |-> [done.index EXCEPT !.max_indexed = current_pop], panic |-> FALSE]

index_unindexed_entities(index, t, T) ==
  IF IsNone(index.lookup) THEN [index |-> index, panic |-> FALSE]
  ELSE
    LET current_pop == get_entity_count(t)
        Loop[id \in (index.max_indexed - 1)..(current_pop - 1)] ==
          IF id < index.max_indexed THEN [index |-> index, panic |-> FALSE]
          ELSE IF Loop[id - 1].panic THEN Loop[id - 1]
          ELSE Index_add_entity(Loop[id - 1].index, t, T, id)
        done == IF current_pop <= index.max_indexed
                THEN [index |-> index, panic |-> FALSE]
                ELSE Loop[current_pop - 1]
    IN IF done.panic THEN done
       ELSE [index |-> [done.index EXCEPT !.max_indexed = current_pop], panic |-> FALSE]

\* get_container_mut inserting a fresh container whether or not one exists.
IndexMap_get_container_mut_insert(t, T) ==
  [t EXCEPT !.property_indexes =
     [U \in DOMAIN t.property_indexes \cup {T} |->
        IF U = T THEN Index_new ELSE t.property_indexes[U]]]

\* IndexMap::get_container_mut: the index of T, created (disabled) when absent.
IndexMap_get_container_mut(t, T) ==
  IF T \in DOMAIN t.property_indexes THEN t
  ELSE [t EXCEPT !.property_indexes =
          [U \in DOMAIN t.property_indexes \cup {T} |->
             IF U = T THEN Index_new ELSE t.property_indexes[U]]]

set_index(t, T, index) == [t EXCEPT !.property_indexes[T] = index]

\* ---- Query (src/entity/query.rs) -------------------------------------------------------
\* A query or an initialization list is a tuple of property values, modelled
\* as a sequence of <<T, value>>; the empty sequence is the unit tuple ().
Predicates(Ts) == UNION {{<<T, v>> : v \in Values(T)} : T \in Ts}

TuplesOver(Ts) == UNION {[1..n -> Predicates(Ts)] : n \in 0..MaxTupleLen}

Tuples == TuplesOver(declared)


\* Query::setup without the registration of the queried properties: only the
\* refresh of the indexes, behind the unwrap of the entity container.
setup_unregistered(t, q) ==
  IF Len(q) = 0 THEN Ok(t, None)
  ELSE
    LET Refresh[i \in 0..Len(q)] ==
          IF i = 0 THEN Ok(t, None)
          ELSE IF Refresh[i - 1].panic THEN Refresh[i - 1]
          ELSE LET c == IndexMap_get_container_mut(Refresh[i - 1].t, q[i][1])
                   r == index_unindexed_entities(c.property_indexes[q[i][1]], c, q[i][1])
               IN IF r.panic THEN Panic(c) ELSE Ok(set_index(c, q[i][1], r.index), None)
    IN IF ~has_data_container(t) THEN Panic(t) ELSE Refresh[Len(q)]


\* Query::setup refreshing, after the indexes of the queried properties, the
\* index of every other property as well.
setup_refresh_all(t, q) ==
  IF Len(q) = 0 THEN Ok(t, None)
  ELSE
    LET Reg[i \in 0..Len(q)] ==
          IF i = 0 THEN Ok(t, None)
          ELSE IF Reg[i - 1].panic THEN Reg[i - 1]
          ELSE LET c == get_data_container_mut(Reg[i - 1].t) IN
               IF is_registered(c, q[i][1]) THEN Ok(c, None) ELSE register(c, q[i][1])
        registered == Reg[Len(q)]
        All[S \in SUBSET DOMAIN registered.t.property_indexes] ==
          IF S = {} THEN registered
          ELSE LET T == CHOOSE U \in S : TRUE
                   prev == All[S \ {T}]
               IN IF prev.panic THEN prev
                  ELSE LET r == index_unindexed_entities(prev.t.property_indexes[T], prev.t, T)
                       IN IF r.panic THEN Panic(prev.t) ELSE Ok(set_index(prev.t, T, r.index), None)
    IN IF registered.panic THEN registered
       ELSE All[DOMAIN registered.t.property_indexes]

\* Query::setup. The unit query does nothing; otherwise every property of the
\* tuple is registered when it is not yet, then every index is refreshed.
setup(t, q) ==
  IF Len(q) = 0 THEN Ok(t, None)
  ELSE
    LET Reg[i \in 0..Len(q)] ==
          IF i = 0 THEN Ok(t, None)
          ELSE IF Reg[i - 1].panic THEN Reg[i - 1]
          ELSE LET c == get_data_container_mut(Reg[i - 1].t) IN
               IF is_registered(c, q[i][1]) THEN Ok(c, None) ELSE register(c, q[i][1])
        registered == Reg[Len(q)]
        Refresh[i \in 0..Len(q)] ==
          IF i = 0 THEN registered
          ELSE IF Refresh[i - 1].panic THEN Refresh[i - 1]
          ELSE LET c == IndexMap_get_container_mut(Refresh[i - 1].t, q[i][1])
                   r == index_unindexed_entities(c.property_indexes[q[i][1]], c, q[i][1])
               IN IF r.panic THEN Panic(c) ELSE Ok(set_index(c, q[i][1], r.index), None)
    IN IF registered.panic THEN registered
       ELSE IF ~has_data_container(registered.t) THEN Panic(registered.t)
       ELSE Refresh[Len(q)]

\* EntityData::entity_iterator: the ids 0 .. entity_count - 1 in order.
entity_iterator(t) == [i \in 1..t.entity_count |-> i - 1]

\* The iteration of a HashSet<EntityId>. The order of a hash set is not
\* specified; the ids are taken in increasing order.
RECURSIVE SetToSeq(_)
SetToSeq(S) ==
  IF S = {} THEN <<>>
  ELSE LET m == CHOOSE x \in S : \A y \in S : x <= y IN <<m>> \o SetToSeq(S \ {m})


\* Step 2 of execute_query without the early return: a predicate whose
\* enabled index has no bucket for its key is passed over.
collect_no_return(t, q) ==
  LET C[i \in 0..Len(q)] ==
        IF i = 0 THEN [indexes |-> <<>>, unindexed |-> <<>>, returned |-> FALSE, panic |-> FALSE]
        ELSE IF C[i - 1].panic THEN C[i - 1]
        ELSE IF q[i][1] \notin DOMAIN t.property_indexes THEN [C[i - 1] EXCEPT !.panic = TRUE]
        ELSE
          LET index == t.property_indexes[q[i][1]]
              hash_value == IndexValueOf(q[i][1], q[i][2])
          IN IF IsSome(index.lookup)
             THEN IF hash_value \in DOMAIN Unwrap(index.lookup)
                  THEN [C[i - 1] EXCEPT !.indexes = Append(@, Unwrap(index.lookup)[hash_value])]
                  ELSE C[i - 1]
             ELSE [C[i - 1] EXCEPT !.unindexed = Append(@, <<q[i][1], hash_value>>)]
  IN C[Len(q)]

\* Step 2 of execute_query: walks the predicates in order, collecting the
\* bucket of each indexed predicate and a closure (T, hash_value) for each
\* unindexed one; `returned` is the early return on a missing bucket.
collect(t, q) ==
  LET C[i \in 0..Len(q)] ==
        IF i = 0 THEN [indexes |-> <<>>, unindexed |-> <<>>, returned |-> FALSE, panic |-> FALSE]
        ELSE IF C[i - 1].returned \/ C[i - 1].panic THEN C[i - 1]
        ELSE IF q[i][1] \notin DOMAIN t.property_indexes THEN [C[i - 1] EXCEPT !.panic = TRUE]
        ELSE
          LET index == t.property_indexes[q[i][1]]
              hash_value == IndexValueOf(q[i][1], q[i][2])
          IN IF IsSome(index.lookup)
             THEN IF hash_value \in DOMAIN Unwrap(index.lookup)
                  THEN [C[i - 1] EXCEPT !.indexes = Append(@, Unwrap(index.lookup)[hash_value])]
                  ELSE [C[i - 1] EXCEPT !.returned = TRUE]
             ELSE [C[i - 1] EXCEPT !.unindexed = Append(@, <<q[i][1], hash_value>>)]
  IN C[Len(q)]

\* The unindexed closure: reads the column of T and compares index values.
hash_lookup(t, closure, entity_id) ==
  LET value == get_property_ref(t, closure[1], entity_id) IN
  IF IsSome(value) THEN closure[2] = IndexValueOf(closure[1], Unwrap(value)) ELSE FALSE


\* The candidate selection taking the first collected bucket, whatever its size.
shortest_idx_first(indexes) == 1

\* The first index of a bucket of minimal length.
shortest_idx(indexes) ==
  CHOOSE idx \in 1..Len(indexes) :
    /\ \A j \in 1..Len(indexes) : Cardinality(indexes[idx]) <= Cardinality(indexes[j])
    /\ \A j \in 1..(idx - 1) : Cardinality(indexes[j]) > Cardinality(indexes[idx])

remove_at(s, idx) == [i \in 1..(Len(s) - 1) |-> IF i < idx THEN s[i] ELSE s[i + 1]]

\* Step 3 of execute_query: the candidates and the buckets left to intersect.
to_check(t, indexes) ==
  IF Len(indexes) = 0
  THEN [candidates |-> entity_iterator(t), indexes |-> indexes]
  ELSE [candidates |-> SetToSeq(indexes[shortest_idx(indexes)]),
        indexes |-> remove_at(indexes, shortest_idx(indexes))]

\* execute_query whose filter leaves out the unindexed closures.
execute_query_indexes_only(t, q) ==
  IF Len(q) = 0 THEN [panic |-> FALSE, calls |-> <<>>]
  ELSE IF ~has_data_container(t) THEN [panic |-> TRUE, calls |-> <<>>]
  ELSE
    LET c == collect(t, q) IN
    IF c.panic THEN [panic |-> TRUE, calls |-> <<>>]
    ELSE IF c.returned THEN [panic |-> FALSE, calls |-> <<>>]
    ELSE
      LET plan == to_check(t, c.indexes)
          passes(entity_id) == \A i \in 1..Len(plan.indexes) : entity_id \in plan.indexes[i]
      IN [panic |-> FALSE, calls |-> SelectSeq(plan.candidates, passes)]


\* execute_query whose filter leaves out the membership test in the buckets
\* that were not chosen as candidates.
execute_query_candidates_only(t, q) ==
  IF Len(q) = 0 THEN [panic |-> FALSE, calls |-> <<>>]
  ELSE IF ~has_data_container(t) THEN [panic |-> TRUE, calls |-> <<>>]
  ELSE
    LET c == collect(t, q) IN
    IF c.panic THEN [panic |-> TRUE, calls |-> <<>>]
    ELSE IF c.returned THEN [panic |-> FALSE, calls |-> <<>>]
    ELSE
      LET plan == to_check(t, c.indexes)
          passes(entity_id) ==
            \A i \in 1..Len(c.unindexed) : hash_lookup(t, c.unindexed[i], entity_id)
      IN [panic |-> FALSE, calls |-> SelectSeq(plan.candidates, passes)]

\* Query::execute_query: the sequence of ids handed to the accumulator.
execute_query(t, q) ==
  IF Len(q) = 0 THEN [panic |-> FALSE, calls |-> <<>>]
  ELSE IF ~has_data_container(t) THEN [panic |-> TRUE, calls |-> <<>>]
  ELSE
    LET c == collect(t, q) IN
    IF c.panic THEN [panic |-> TRUE, calls |-> <<>>]
    ELSE IF c.returned THEN [panic |-> FALSE, calls |-> <<>>]
    ELSE
      LET plan == to_check(t, c.indexes)
          passes(entity_id) ==
            /\ \A i \in 1..Len(plan.indexes) : entity_id \in plan.indexes[i]
            /\ \A i \in 1..Len(c.unindexed) : hash_lookup(t, c.unindexed[i], entity_id)
      IN [panic |-> FALSE, calls |-> SelectSeq(plan.candidates, passes)]


\* match_entity answering from the indexes: setup refreshes them and the
\* entity matches when execute_query hands it to the accumulator.
match_entity_by_query(t, q, entity) ==
  LET s == setup(t, q) IN
  IF s.panic THEN Panic(s.t)
  ELSE LET e == execute_query(s.t, q) IN
       IF e.panic THEN Panic(s.t)
       ELSE Ok(s.t, Len(q) = 0 \/ entity \in Range(e.calls))

\* Query::match_entity: get_property (register, then compute) on each
\* predicate in order, returning false at the first that does not match.
match_entity(t, q, entity) ==
  LET M[i \in 0..Len(q)] ==
        IF i = 0 THEN [t |-> t, panic |-> FALSE, returned |-> FALSE]
        ELSE IF M[i - 1].panic \/ M[i - 1].returned THEN M[i - 1]
        ELSE LET r == register(M[i - 1].t, q[i][1]) IN
             IF r.panic THEN [t |-> r.t, panic |-> TRUE, returned |-> FALSE]
             ELSE LET value == compute(r.t, q[i][1], entity) IN
                  IF value.panic THEN [t |-> r.t, panic |-> TRUE, returned |-> FALSE]
                  ELSE IF IsSome(value.ret) /\ Unwrap(value.ret) = q[i][2]
                  THEN [t |-> r.t, panic |-> FALSE, returned |-> FALSE]
                  ELSE [t |-> r.t, panic |-> FALSE, returned |-> TRUE]
  IN IF M[Len(q)].panic THEN Panic(M[Len(q)].t)
     ELSE Ok(M[Len(q)].t, ~M[Len(q)].returned)

\* ---- ContextEntityExt (src/entity/context_ext.rs) ------------------------------------
has_property(list, type_id) == \E i \in 1..Len(list) : list[i][1] = type_id

\* check_initialization_list with the test of has_property inverted.
check_initialization_list_inverted(t, list) ==
  \A i \in 1..Len(t.property_metadata) :
    ~(t.property_metadata[i].is_required /\ has_property(list, t.property_metadata[i].type_id))

\* check_initialization_list: TRUE when no registered required property is
\* missing from the list.
check_initialization_list(t, list) ==
  \A i \in 1..Len(t.property_metadata) :
    ~(t.property_metadata[i].is_required /\ ~has_property(list, t.property_metadata[i].type_id))

set_properties(t, list, entity_id) ==
  LET S[i \in 0..Len(list)] ==
        IF i = 0 THEN Ok(t, None)
        ELSE IF S[i - 1].panic THEN S[i - 1]
        ELSE EntityData_set_property(S[i - 1].t, list[i][1], entity_id, list[i][2])
  IN S[Len(list)]


\* add_entity taking the new id before it looks at the initialization list.
add_entity_checked_late(t, properties) ==
  LET c == get_data_container_mut(t)
      added == EntityData_add_entity(c)
  IN IF ~check_initialization_list(added.t, properties) THEN Ok(added.t, <<"Err">>)
     ELSE
       LET s == set_properties([added.t EXCEPT !.is_initializing = TRUE], properties, added.ret)
       IN IF s.panic THEN Panic(s.t)
          ELSE Ok([s.t EXCEPT !.is_initializing = FALSE], <<"Ok", added.ret>>)

\* add_entity: ret is <<"Err">> or <<"Ok", entity_id>>.
add_entity(t, properties) ==
  LET c == get_data_container_mut(t) IN
  IF ~check_initialization_list(c, properties) THEN Ok(c, <<"Err">>)
  ELSE
    LET added == EntityData_add_entity(c)
        s == set_properties([added.t EXCEPT !.is_initializing = TRUE], properties, added.ret)
    IN IF s.panic THEN Panic(s.t)
       ELSE Ok([s.t EXCEPT !.is_initializing = FALSE], <<"Ok", added.ret>>)

get_property(t, T, entity_id) ==
  LET r == register(t, T) IN
  IF r.panic THEN r ELSE compute(r.t, T, entity_id)

\* set_property writing only into a slot that holds no value yet.
set_property_keep_first(t, T, entity_id, value) ==
  LET property == EntityData_get_property_mut(get_data_container_mut(t), T, entity_id) IN
  IF property.panic THEN property
  ELSE IF IsSome(property.ret) THEN Ok(property.t, None)
  ELSE Ok(write_property(property.t, T, entity_id, value), None)

set_property(t, T, entity_id, value) ==
  LET property == EntityData_get_property_mut(get_data_container_mut(t), T, entity_id) IN
  IF property.panic THEN property
  ELSE Ok(write_property(property.t, T, entity_id, value), None)

\* get_property_mut: rejects a derived T, registers T, then hands out the
\* slot of EntityData::get_property_mut; ret is the slot.
get_property_mut(t, T, entity_id) ==
  IF is_derived(T) THEN Panic(t)
  ELSE LET r == register(t, T) IN
       IF r.panic THEN r
       ELSE EntityData_get_property_mut(get_data_container_mut(r.t), T, entity_id)

\* get_property_or_default: the value of the slot, after writing default
\* into it when it was None.
get_property_or_default(t, T, entity_id, default) ==
  LET property == EntityData_get_property_mut(get_data_container_mut(t), T, entity_id) IN
  IF property.panic THEN property
  ELSE IF IsSome(property.ret) THEN Ok(property.t, Unwrap(property.ret))
  ELSE Ok(write_property(property.t, T, entity_id, default), default)

\* query_entities: setup, then the accumulator pushes each id onto a vector.
query_entities(t, query) ==
  LET s == setup(t, query) IN
  IF s.panic THEN Panic(s.t)
  ELSE LET e == execute_query(s.t, query)
           result[i \in 0..Len(e.calls)] == IF i = 0 THEN <<>> ELSE Append(result[i - 1], e.calls[i])
       IN IF e.panic THEN Panic(s.t) ELSE Ok(s.t, result[Len(e.calls)])

\* query_entity_count without the call of setup: the indexes are probed as
\* the previous query left them.
query_entity_count_no_setup(t, q) ==
  LET e == execute_query(t, q)
      count[i \in 0..Len(e.calls)] == IF i = 0 THEN 0 ELSE count[i - 1] + 1
  IN IF e.panic THEN Panic(t) ELSE Ok(t, count[Len(e.calls)])

\* query_entity_count: setup, then the accumulator counts its calls.
query_entity_count(t, q) ==
  LET s == setup(t, q) IN
  IF s.panic THEN Panic(s.t)
  ELSE LET e == execute_query(s.t, q)
           count[i \in 0..Len(e.calls)] == IF i = 0 THEN 0 ELSE count[i - 1] + 1
       IN IF e.panic THEN Panic(s.t) ELSE Ok(s.t, count[Len(e.calls)])

\* index_property populating the index it enables at once.
index_property_eager(t, T) ==
  LET r == register(t, T) IN
  IF r.panic THEN r
  ELSE LET c == IndexMap_get_container_mut(get_data_container_mut(r.t), T)
           index == c.property_indexes[T]
           filled == index_unindexed_entities(
                       IF IsNone(index.lookup) THEN [index EXCEPT !.lookup = Some(EmptyMap)]
                       ELSE index, c, T)
       IN IF filled.panic THEN Panic(c) ELSE Ok(set_index(c, T, filled.index), None)

\* index_property installing an empty map whether or not one is there.
index_property_reset(t, T) ==
  LET r == register(t, T) IN
  IF r.panic THEN r
  ELSE LET c == IndexMap_get_container_mut(get_data_container_mut(r.t), T)
           index == c.property_indexes[T]
       IN Ok(set_index(c, T, [index EXCEPT !.lookup = Some(EmptyMap)]), None)

index_property(t, T) ==
  LET r == register(t, T) IN
  IF r.panic THEN r
  ELSE LET c == IndexMap_get_container_mut(get_data_container_mut(r.t), T)
           index == c.property_indexes[T]
       IN Ok(set_index(c, T, IF IsNone(index.lookup)
                             THEN [index EXCEPT !.lookup = Some(EmptyMap)]
                             ELSE index), None)


\* add_to_index_maybe: the key is IndexValue::new(&value) of the Option<T>
\* that get_property_internal returned; inserted when the index is enabled.
add_to_index_maybe(t, T, entity_id) ==
  LET value == get_property_internal(t, T, entity_id) IN
  IF value.panic THEN Panic(t)
  ELSE
    LET index_value == IndexValueOfOption(T, value.ret)
        c == IndexMap_get_container_mut(get_data_container_mut(t), T)
        index == c.property_indexes[T]
    IN IF IsSome(index.lookup)
       THEN Ok(set_index(c, T, Index_insert(index, entity_id, index_value).index), None)
       ELSE Ok(c, None)

\* The removal of entity_id from the bucket of index_value, the bucket's key
\* going with its last id; map must hold index_value.
remove_from_bucket(map, index_value, entity_id) ==
  LET index_set == map[index_value] \ {entity_id} IN
  IF index_set = {}
  THEN [k \in DOMAIN map \ {index_value} |-> map[k]]
  ELSE [map EXCEPT ![index_value] = index_set]

\* remove_from_index_maybe leaving the emptied bucket in lookup.
remove_from_index_maybe_keep_bucket(t, T, entity_id) ==
  LET value == get_property_internal(t, T, entity_id) IN
  IF value.panic THEN Panic(t)
  ELSE
    LET index_value == IndexValueOfOption(T, value.ret)
        c == IndexMap_get_container_mut(get_data_container_mut(t), T)
        index == c.property_indexes[T]
    IN IF IsSome(index.lookup) /\ index_value \in DOMAIN Unwrap(index.lookup)
       THEN Ok(set_index(c, T, [index EXCEPT !.lookup =
                 Some([Unwrap(index.lookup) EXCEPT ![index_value] = @ \ {entity_id}])]), None)
       ELSE Ok(c, None)

\* remove_from_index_maybe: the key is computed as in add_to_index_maybe;
\* when lookup holds a bucket under it, entity_id leaves the bucket.
remove_from_index_maybe(t, T, entity_id) ==
  LET value == get_property_internal(t, T, entity_id) IN
  IF value.panic THEN Panic(t)
  ELSE
    LET index_value == IndexValueOfOption(T, value.ret)
        c == IndexMap_get_container_mut(get_data_container_mut(t), T)
        index == c.property_indexes[T]
    IN IF IsSome(index.lookup) /\ index_value \in DOMAIN Unwrap(index.lookup)
       THEN Ok(set_index(c, T, [index EXCEPT !.lookup =
                 Some(remove_from_bucket(Unwrap(index.lookup), index_value, entity_id))]), None)
       ELSE Ok(c, None)

\* Index::remove_entity on the index of T: get_property, then for a value
\* Some(v) the unwraps of lookup and of the bucket of the key of v, and the
\* removal of entity_id from that bucket.
Index_remove_entity(t, T, entity_id) ==
  LET value == get_property(t, T, entity_id) IN
  IF value.panic THEN Panic(t)
  ELSE IF IsNone(value.ret) THEN Ok(value.t, None)
  ELSE
    LET index_value == IndexValueOf(T, Unwrap(value.ret))
        index == value.t.property_indexes[T]
    IN IF IsNone(index.lookup) THEN Panic(value.t)
       ELSE IF index_value \notin DOMAIN Unwrap(index.lookup) THEN Panic(value.t)
       ELSE Ok(set_index(value.t, T, [index EXCEPT !.lookup =
                 Some(remove_from_bucket(Unwrap(index.lookup), index_value, entity_id))]), None)

\* ---- the program: any sequence of extension operations on one Context ----------------
\* A client program declares MaxProperties property types, a derived
\* property along with the properties it depends on.
Programs ==
  {Ts \in SUBSET Properties :
     /\ Cardinality(Ts) = MaxProperties
     /\ \A T \in Ts : Range(DeclaredDependencies(T)) \subseteq Ts}

Init ==
  /\ data_plugins = Context_new.data_plugins
  /\ is_initializing = Context_new.is_initializing
  /\ entity_count = Context_new.entity_count
  /\ properties_map = Context_new.properties_map
  /\ registered_derived_properties = Context_new.registered_derived_properties
  /\ dependency_map = Context_new.dependency_map
  /\ property_indexes = Context_new.property_indexes
  /\ property_metadata = Context_new.property_metadata
  /\ panicked = FALSE
  /\ declared \in Programs
  /\ buf = IndexValueHasher_new
  /\ writes = 0

\* An operation ran with outcome r: the context becomes r.t, or the program
\* is aborted when the operation panicked.
Returns(r) ==
  IF r.panic
  THEN /\ panicked' = TRUE
       /\ UNCHANGED <<buf, writes>>
       /\ UNCHANGED <<declared, data_plugins, is_initializing, entity_count, properties_map,
                      registered_derived_properties, dependency_map, property_indexes,
                      property_metadata>>
  ELSE /\ panicked' = FALSE
       /\ UNCHANGED <<declared, buf, writes>>
       /\ data_plugins' = r.t.data_plugins
       /\ is_initializing' = r.t.is_initializing
       /\ entity_count' = r.t.entity_count
       /\ properties_map' = r.t.properties_map
       /\ registered_derived_properties' = r.t.registered_derived_properties
       /\ dependency_map' = r.t.dependency_map
       /\ property_indexes' = r.t.property_indexes
       /\ property_metadata' = r.t.property_metadata

EntityIds == 0..(entity_count - 1)

AddEntity ==
  /\ ~panicked
  /\ entity_count < MaxEntities
  /\ \E properties \in Tuples : Returns(add_entity(Table, properties))

SetProperty ==
  /\ ~panicked
  /\ \E entity_id \in EntityIds, T \in declared :
       \E value \in Values(T) : Returns(set_property(Table, T, entity_id, value))

GetProperty ==
  /\ ~panicked
  /\ \E entity_id \in EntityIds, T \in declared :
       Returns(get_property(Table, T, entity_id))

GetPropertyMut ==
  /\ ~panicked
  /\ \E entity_id \in EntityIds, T \in declared :
       Returns(get_property_mut(Table, T, entity_id))

GetPropertyOrDefault ==
  /\ ~panicked
  /\ \E entity_id \in EntityIds, T \in declared :
       \E default \in Values(T) :
         Returns(get_property_or_default(Table, T, entity_id, default))

IndexProperty ==
  /\ ~panicked
  /\ \E T \in declared : Returns(index_property(Table, T))

QueryEntities ==
  /\ ~panicked
  /\ \E q \in Tuples : Returns(query_entities(Table, q))

QueryEntityCount ==
  /\ ~panicked
  /\ \E q \in Tuples : Returns(query_entity_count(Table, q))

MatchEntity ==
  /\ ~panicked
  /\ \E entity_id \in EntityIds, q \in Tuples :
       Returns(match_entity(Table, q, entity_id))

Next ==
  \/ AddEntity
  \/ SetProperty
  \/ GetProperty
  \/ GetPropertyMut
  \/ GetPropertyOrDefault
  \/ IndexProperty
  \/ QueryEntities
  \/ QueryEntityCount
  \/ MatchEntity

Spec == Init /\ [][Next]_vars

\* ---- properties ---------------------------------------------------------------------------
\* What the extension operations return when called in the current state.
QE(q) == query_entities(Table, q)
QC(q) == query_entity_count(Table, q)
ME(entity_id, q) == match_entity(Table, q, entity_id)

IndexEnabled(t, T) ==
  T \in DOMAIN t.property_indexes /\ IsSome(t.property_indexes[T].lookup)

\* The context in which index_property was never called: every index slot
\* is as Index::new left it. Columns and entity_count do not depend on the
\* indexes, so they are those of the current state.
WithoutIndexes(t) ==
  [t EXCEPT !.property_indexes = [U \in DOMAIN t.property_indexes |-> Index_new]]

\* The entities whose current value of T is v.
Having(t, T, v) ==
  {e \in 0..(t.entity_count - 1) :
     LET c == compute(t, T, e) IN ~c.panic /\ c.ret = Some(v)}

\* C1: in every reachable state, for every query q and entity e, e is in
\* query_entities(q) exactly when match_entity(e, q) is true (compared
\* whenever both calls return).
C1_QueryIffMatch ==
  ~panicked =>
    \A q \in Tuples, e \in EntityIds :
      (~QE(q).panic /\ ~ME(e, q).panic) => ((e \in Range(QE(q).ret)) <=> ME(e, q).ret)

\* C2: the empty query matches every entity: query_entities(()) returns every
\* id below entity_count and query_entity_count(()) is entity_count.
C2_EmptyQueryMatchesAll ==
  ~panicked =>
    /\ Range(QE(<<>>).ret) = EntityIds
    /\ QC(<<>>).ret = get_entity_count(Table)

\* C3: enabling an index never changes a query's result: in every reachable
\* state a query returns the same ids as it does with no index enabled
\* (compared whenever both calls return).
C3_IndexNeverChangesResult ==
  ~panicked =>
    \A q \in Tuples :
      LET plain == query_entities(WithoutIndexes(Table), q) IN
      (~QE(q).panic /\ ~plain.panic) => Range(QE(q).ret) = Range(plain.ret)

\* C4: in every reachable state, for every enabled index of T and every
\* entity e below max_indexed whose current value of T is Some(v), e is in
\* lookup[key(v)].
C4_IndexedEntitiesInTheirBucket ==
  \A T \in DOMAIN property_indexes :
    IsSome(property_indexes[T].lookup) =>
      \A e \in 0..(property_indexes[T].max_indexed - 1) :
        LET value == compute(Table, T, e)
            lookup == Unwrap(property_indexes[T].lookup)
        IN (~value.panic /\ IsSome(value.ret)) =>
             /\ IndexValueOf(T, Unwrap(value.ret)) \in DOMAIN lookup
             /\ e \in lookup[IndexValueOf(T, Unwrap(value.ret))]

\* C5: after set_property(e, w) on a stored property T whose value for e was
\* v # w, the next query (T = w) includes e and the next query (T = v) does
\* not, when T is not indexed and when T is indexed and e already indexed.
C5_SetPropertyThenQuery ==
  ~panicked =>
    \A T \in declared \cap StoredProperties, e \in EntityIds :
      \A w \in Values(T) :
        LET v == get_property_ref(Table, T, e)
            after == set_property(Table, T, e, w).t
            new == query_entities(after, <<<<T, w>>>>)
        IN (/\ IsSome(v)
            /\ Unwrap(v) # w
            /\ IndexEnabled(Table, T) => e < property_indexes[T].max_indexed)
           => LET old == query_entities(after, <<<<T, Unwrap(v)>>>>) IN
              /\ ~new.panic => e \in Range(new.ret)
              /\ ~old.panic => e \notin Range(old.ret)

\* C6: for a derived property D with no index enabled, query_entities(D = d)
\* and query_entity_count(D = d) return exactly the entities whose computed
\* value of D is d.
C6_DerivedQueryUnindexed ==
  ~panicked =>
    \A D \in declared \cap DerivedProperties :
      \A d \in Values(D) :
        (/\ ~IndexEnabled(Table, D)
         /\ \A e \in EntityIds : ~compute(Table, D, e).panic)
        => /\ ~QE(<<<<D, d>>>>).panic
           /\ Range(QE(<<<<D, d>>>>).ret) = Having(Table, D, d)
           /\ QC(<<<<D, d>>>>).ret = Cardinality(Having(Table, D, d))

\* C7: with an index enabled on a derived property D and every entity
\* already indexed, after set_property changes a dependency of D for e so
\* that the value of D for e changes from d to d2, the next query (D = d2)
\* includes e and the next query (D = d) excludes e.
C7_DerivedIndexFollowsDependency ==
  ~panicked =>
    \A D \in declared \cap DerivedProperties, e \in EntityIds :
      \A A \in Range(collect_dependencies(D)) :
        \A w \in Values(A) :
          LET before == compute(Table, D, e)
              after == set_property(Table, A, e, w).t
              now == compute(after, D, e)
          IN (/\ IndexEnabled(Table, D)
              /\ property_indexes[D].max_indexed = entity_count
              /\ ~before.panic /\ ~now.panic
              /\ IsSome(before.ret) /\ IsSome(now.ret)
              /\ before.ret # now.ret)
             => LET new == query_entities(after, <<<<D, Unwrap(now.ret)>>>>)
                    old == query_entities(after, <<<<D, Unwrap(before.ret)>>>>)
                IN /\ ~new.panic /\ e \in Range(new.ret)
                   /\ ~old.panic /\ e \notin Range(old.ret)

\* C8: in every reachable state and for every query q, query_entity_count(q)
\* is the number of ids that query_entities(q) returns in that state (and
\* the one call panics exactly when the other does).
C8_CountIsNumberOfEntities ==
  \A q \in Tuples :
    LET entities == QE(q)
        count == QC(q)
    IN /\ count.panic = entities.panic
       /\ ~entities.panic =>
            /\ count.ret = Len(entities.ret)
            /\ count.ret = Cardinality(Range(entities.ret))

\* A two-predicate query over an indexed and an unindexed property returns
\* two entities after the index was refreshed by a query: both calls agree
\* on a result that is not empty.
C8_Witness ==
  \E q \in Tuples :
    /\ Len(q) = 2
    /\ IndexEnabled(Table, q[1][1])
    /\ property_indexes[q[1][1]].max_indexed = 2
    /\ ~IndexEnabled(Table, q[2][1])
    /\ ~QE(q).panic
    /\ Len(QE(q).ret) = 2
    /\ QC(q).ret = 2

\* The predicates of a query, as a set.
PredicateSet(q) == Range(q)

\* C9: adding predicates never grows the result: when the predicates of q1
\* are among those of q2, query_entity_count(q1) >= query_entity_count(q2)
\* (compared whenever both calls return).
C9_MorePredicatesFewerEntities ==
  ~panicked =>
    \A q1 \in Tuples, q2 \in Tuples :
      (/\ PredicateSet(q1) \subseteq PredicateSet(q2)
       /\ ~QC(q1).panic /\ ~QC(q2).panic)
      => QC(q1).ret >= QC(q2).ret

\* C10: when add_entity(props) returns Ok(id), an immediately following
\* query_entities(props) returns a set containing id (whenever it returns).
C10_AddEntityThenQuery ==
  ~panicked =>
    \A props \in Tuples :
      LET added == add_entity(Table, props) IN
      (~added.panic /\ added.ret[1] = "Ok") =>
        LET found == query_entities(added.t, props) IN
        ~found.panic => added.ret[2] \in Range(found.ret)

\* What get_property returns for every stored property and entity of t.
Read(t) ==
  [x \in (declared \cap StoredProperties) \X (0..(t.entity_count - 1)) |->
     get_property(t, x[1], x[2]).ret]

\* The value an initialization list writes last for T, None when the list
\* carries no T.
LastWritten(list, T) ==
  LET idx == {i \in 1..Len(list) : list[i][1] = T} IN
  IF idx = {} THEN None
  ELSE Some(list[CHOOSE i \in idx : \A j \in idx : j <= i][2])

Refreshed(after, T) ==
  LET index == after.property_indexes[T] IN
  /\ index.max_indexed = after.entity_count
  /\ \A e \in property_indexes[T].max_indexed..(entity_count - 1) :
       LET value == compute(after, T, e)
           found == query_entities(after, <<<<T, Unwrap(value.ret)>>>>)
       IN /\ ~value.panic
          /\ IsSome(value.ret)
          /\ IndexValueOf(T, Unwrap(value.ret)) \in DOMAIN Unwrap(index.lookup)
          /\ e \in Unwrap(index.lookup)[IndexValueOf(T, Unwrap(value.ret))]
          /\ ~found.panic
          /\ e \in Range(found.ret)

\* C12: when query_entities or query_entity_count naming T returns while the
\* index of T is enabled, max_indexed of T is entity_count and every entity
\* that was not indexed before the call is in lookup[key(v)] for its value v
\* of T and is returned by the query (T = v).
C12_QueryRefreshesIndex ==
  ~panicked =>
    \A q \in Tuples :
      LET entities == QE(q)
          count == QC(q)
      IN \A i \in 1..Len(q) :
           IndexEnabled(Table, q[i][1]) =>
             /\ ~entities.panic => Refreshed(entities.t, q[i][1])
             /\ ~count.panic => Refreshed(count.t, q[i][1])

\* The index of Age was refreshed when one entity existed, a second entity
\* was created with Age(65) since, and the query for Age(65) returns it.
C12_Witness ==
  /\ entity_count = 2
  /\ IndexEnabled(Table, "Age")
  /\ property_indexes["Age"].max_indexed = 1
  /\ ~QE(<<<<"Age", 65>>>>).panic
  /\ 1 \in Range(QE(<<<<"Age", 65>>>>).ret)
  /\ QE(<<<<"Age", 65>>>>).t.property_indexes["Age"].max_indexed = 2

\* The index of T in t: a property with no index slot yet has the index
\* that registration will create.
IndexOf(t, T) == IF T \in DOMAIN t.property_indexes THEN t.property_indexes[T] ELSE Index_new

Indexes(t) == [T \in declared |-> IndexOf(t, T)]

\* C13: index_property(T) never panics, whatever values the entities have;
\* it turns a lookup of None into Some(empty map) and changes nothing else
\* of any index, column or the entity count: no entity is inserted and
\* max_indexed stays. Only query_entities and query_entity_count naming T
\* change the index of T: every other operation leaves it as it is.
C13_IndexPropertyOnlyEnables ==
  ~panicked =>
    LET now == Indexes(Table) IN
    /\ \A T \in declared :
         LET indexed == index_property(Table, T) IN
         /\ ~indexed.panic
         /\ Indexes(indexed.t) =
              [now EXCEPT ![T].lookup = IF IsNone(@) THEN Some(EmptyMap) ELSE @]
         /\ indexed.t.properties_map = properties_map
         /\ indexed.t.entity_count = entity_count
         /\ \A e \in EntityIds :
              /\ Indexes(get_property(Table, T, e).t) = now
              /\ Indexes(get_property_mut(Table, T, e).t) = now
              /\ \A v \in Values(T) :
                   /\ Indexes(set_property(Table, T, e, v).t) = now
                   /\ Indexes(get_property_or_default(Table, T, e, v).t) = now
    /\ \A q \in Tuples :
         LET added == add_entity(Table, q)
             entities == QE(q)
             count == QC(q)
         IN /\ Indexes(added.t) = now
            /\ \A e \in EntityIds : Indexes(ME(e, q).t) = now
            /\ \A T \in declared :
                 (\A i \in 1..Len(q) : q[i][1] # T) =>
                   /\ IndexOf(entities.t, T) = now[T]
                   /\ IndexOf(count.t, T) = now[T]

\* index_property ran on a property for which an existing entity has no
\* value: the index is enabled and empty, and covers no entity.
C13_Witness ==
  \E T \in declared :
    /\ entity_count = 2
    /\ IndexEnabled(Table, T)
    /\ property_indexes[T].lookup = Some(EmptyMap)
    /\ property_indexes[T].max_indexed = 0
    /\ \E e \in EntityIds : IsNone(compute(Table, T, e).ret)

\* The index of T is enabled and some entity it has not covered yet has no
\* value for T.
HasUnindexable(T) ==
  /\ IndexEnabled(Table, T)
  /\ \E e \in property_indexes[T].max_indexed..(entity_count - 1) :
       compute(Table, T, e).panic \/ IsNone(compute(Table, T, e).ret)

\* C14: query_entities and query_entity_count panic when the query names a
\* property whose index is enabled while an entity in [max_indexed,
\* entity_count) has no value for it; a query none of whose properties is
\* indexed returns normally, whatever values are missing.
C14_QueryPanicsOnMissingValue ==
  ~panicked =>
    \A q \in Tuples :
      LET entities == QE(q)
          count == QC(q)
      IN /\ (\E i \in 1..Len(q) : HasUnindexable(q[i][1])) =>
              (entities.panic /\ count.panic)
         /\ (\A i \in 1..Len(q) : ~IndexEnabled(Table, q[i][1])) =>
              (~entities.panic /\ ~count.panic)

\* The program was aborted in a state where an enabled index has an entity
\* without a value left to cover; no derived property is declared, so that
\* the panic is that of a query.
C14_Witness ==
  /\ panicked
  /\ declared \cap DerivedProperties = {}
  /\ \E T \in declared : HasUnindexable(T) /\ QE(<<<<T, CHOOSE v \in Values(T) : TRUE>>>>).panic
  /\ \E T \in declared :
       /\ ~IndexEnabled(Table, T)
       /\ \E e \in EntityIds : IsNone(compute(Table, T, e).ret)
       /\ ~QE(<<<<T, CHOOSE v \in Values(T) : TRUE>>>>).panic

\* Some property that is registered and required has no value in list.
MissingRequired(list) ==
  \E T \in declared : is_registered(Table, T) /\ is_required(T) /\ ~has_property(list, T)

CarriesDerived(list) == \E i \in 1..Len(list) : is_derived(list[i][1])

\* C15 as stated: add_entity(list) returns the error exactly when a
\* registered required property has no value in list, and in every other
\* case returns Ok with a new entity id.
C15_ErrorIffMissingElseOk ==
  ~panicked =>
    \A props \in Tuples :
      LET added == add_entity(Table, props) IN
      IF MissingRequired(props)
      THEN ~added.panic /\ added.ret = <<"Err">>
      ELSE ~added.panic /\ added.ret = <<"Ok", get_entity_count(Table)>>

\* C15, amended: add_entity(list) returns the error exactly when a
\* registered required property has no value in list; otherwise it panics
\* when list carries a derived property, and in every remaining case it
\* returns Ok with a new entity id.
C15_ErrorIffMissingElsePanicOrOk ==
  ~panicked =>
    \A props \in Tuples :
      LET added == add_entity(Table, props) IN
      IF MissingRequired(props)
      THEN ~added.panic /\ added.ret = <<"Err">>
      ELSE IF CarriesDerived(props) THEN added.panic
      ELSE /\ ~added.panic
           /\ added.ret = <<"Ok", get_entity_count(Table)>>
           /\ added.ret[2] \notin EntityIds

\* Name is registered and one entity exists: a list without Name is
\* refused, the same list with Name creates entity 1.
C15_Witness ==
  /\ is_registered(Table, "Name")
  /\ entity_count = 1
  /\ "Age" \in declared
  /\ add_entity(Table, <<<<"Age", 64>>>>).ret = <<"Err">>
  /\ add_entity(Table, <<<<"Age", 64>>, <<"Name", 88>>>>).ret = <<"Ok", 1>>

\* C16: in every reachable state every entity has a Some value in the column
\* of every property declared required.
C16_RequiredAlwaysPresent ==
  \A T \in declared :
    is_required(T) => \A e \in EntityIds : IsSome(get_property_ref(Table, T, e))

\* T is registered in t: listed as registered, with a PropertyInfo in the
\* metadata and an index slot.
Registered(t, T) ==
  /\ is_registered(t, T)
  /\ \E i \in 1..Len(t.property_metadata) : t.property_metadata[i].type_id = T
  /\ T \in DOMAIN t.property_indexes

\* C17: after a query naming T, index_property(T), get_property(T),
\* set_property(T) or add_entity with T in its list has returned, T is
\* registered; and no operation unregisters a registered property.
C17_RegisteredOnFirstUse ==
  ~panicked =>
    /\ \A T \in declared :
         /\ Registered(index_property(Table, T).t, T)
         /\ \A e \in EntityIds :
              /\ ~get_property(Table, T, e).panic => Registered(get_property(Table, T, e).t, T)
              /\ \A v \in Values(T) :
                   ~set_property(Table, T, e, v).panic => Registered(set_property(Table, T, e, v).t, T)
    /\ \A q \in Tuples :
         LET entities == QE(q)
             count == QC(q)
             added == add_entity(Table, q)
         IN /\ \A i \in 1..Len(q) :
                 /\ ~entities.panic => Registered(entities.t, q[i][1])
                 /\ ~count.panic => Registered(count.t, q[i][1])
                 /\ (~added.panic /\ added.ret[1] = "Ok") => Registered(added.t, q[i][1])
            /\ \A T \in declared :
                 Registered(Table, T) =>
                   /\ ~entities.panic => Registered(entities.t, T)
                   /\ ~count.panic => Registered(count.t, T)
                   /\ ~added.panic => Registered(added.t, T)
                   /\ \A e \in EntityIds : ~ME(e, q).panic => Registered(ME(e, q).t, T)
                   /\ \A U \in declared :
                        /\ Registered(index_property(Table, U).t, T)
                        /\ \A e \in EntityIds :
                             /\ ~get_property(Table, U, e).panic => Registered(get_property(Table, U, e).t, T)
                             /\ ~get_property_mut(Table, U, e).panic =>
                                  Registered(get_property_mut(Table, U, e).t, T)
                             /\ \A v \in Values(U) :
                                  /\ ~set_property(Table, U, e, v).panic =>
                                       Registered(set_property(Table, U, e, v).t, T)
                                  /\ ~get_property_or_default(Table, U, e, v).panic =>
                                       Registered(get_property_or_default(Table, U, e, v).t, T)

\* The PropertyInfo entries of T in the metadata, and the places of T in
\* the list of registered properties.
EntriesFor(T) == {i \in 1..Len(property_metadata) : property_metadata[i].type_id = T}

ListedFor(T) ==
  {i \in 1..Len(registered_derived_properties) : registered_derived_properties[i] = T}

\* C18: in every reachable state each property has no PropertyInfo entry and
\* no index slot (unregistered) or exactly one entry and one slot
\* (registered); registering again changes nothing, and the assertion that
\* the index slot is free is never reached.
C18_RegistrationIdempotent ==
  \A T \in declared :
    /\ Cardinality(EntriesFor(T)) = Cardinality(ListedFor(T))
    /\ Cardinality(EntriesFor(T)) = (IF is_registered(Table, T) THEN 1 ELSE 0)
    /\ (T \in DOMAIN property_indexes) <=> is_registered(Table, T)
    /\ ~panicked =>
         /\ ~register(Table, T).panic
         /\ is_registered(Table, T) => register(Table, T).t = Table
         /\ Len(register(Table, T).t.property_metadata) =
              Len(property_metadata) + (IF is_registered(Table, T) THEN 0 ELSE 1)

\* T was registered and enabled by index_property and touched again by a
\* query that covered two entities: it has one entry and one slot.
C18_Witness ==
  \E T \in declared :
    /\ Registered(Table, T)
    /\ IndexEnabled(Table, T)
    /\ property_indexes[T].max_indexed = 2
    /\ Cardinality(EntriesFor(T)) = 1
    /\ ~index_property(Table, T).panic
    /\ index_property(Table, T).t = Table

\* C19: set_property, get_property_mut and get_property_or_default on a
\* derived property panic with the columns as they were before the call,
\* and in every reachable state no derived property has a column.
C19_DerivedNeverStored ==
  \A D \in declared \cap DerivedProperties :
    /\ D \notin DOMAIN properties_map
    /\ ~panicked =>
         \A e \in EntityIds :
           /\ get_property_mut(Table, D, e).panic
           /\ get_property_mut(Table, D, e).t.properties_map = properties_map
           /\ \A v \in Values(D) :
                /\ set_property(Table, D, e, v).panic
                /\ set_property(Table, D, e, v).t.properties_map = properties_map
                /\ get_property_or_default(Table, D, e, v).panic
                /\ get_property_or_default(Table, D, e, v).t.properties_map = properties_map

\* The program was aborted by a write of the derived property Senior: no
\* index is enabled and every entity has an Age, so that no query and no
\* read can panic, and no further entity can be created. Senior has a
\* computed value and no column.
C19_Witness ==
  /\ panicked
  /\ "Senior" \in declared
  /\ \A T \in declared : ~IndexEnabled(Table, T)
  /\ entity_count = MaxEntities
  /\ \A e \in EntityIds : IsSome(compute(Table, "Senior", e).ret)
  /\ compute(Table, "Senior", 0).ret = Some(1)
  /\ "Senior" \notin DOMAIN properties_map

\* C20: get_entity_count is 0 on a fresh context; a successful add_entity
\* returns the entity count before the call, an id no entity has yet, and
\* raises the count by exactly 1; a refused add_entity and every other
\* operation leave the count as it is. The ids are therefore 0, 1, 2, ... in
\* creation order and the count is the number of successful add_entity calls.
C20_IdsCountUp ==
  /\ ~has_data_container(Table) => get_entity_count(Table) = 0
  /\ get_entity_count(Table) = entity_count
  /\ ~panicked =>
       LET now == get_entity_count(Table) IN
       /\ \A props \in Tuples :
            LET added == add_entity(Table, props)
                entities == QE(props)
                count == QC(props)
            IN /\ (~added.panic /\ added.ret[1] = "Ok") =>
                    /\ added.ret[2] = now
                    /\ added.ret[2] \notin EntityIds
                    /\ get_entity_count(added.t) = now + 1
               /\ (~added.panic /\ added.ret[1] = "Err") => get_entity_count(added.t) = now
               /\ ~entities.panic => get_entity_count(entities.t) = now
               /\ ~count.panic => get_entity_count(count.t) = now
               /\ \A e \in EntityIds :
                    ~ME(e, props).panic => get_entity_count(ME(e, props).t) = now
       /\ \A T \in declared :
            /\ get_entity_count(index_property(Table, T).t) = now
            /\ \A e \in EntityIds :
                 LET got == get_property(Table, T, e)
                     slot == get_property_mut(Table, T, e)
                 IN /\ ~got.panic => get_entity_count(got.t) = now
                    /\ ~slot.panic => get_entity_count(slot.t) = now
                    /\ \A v \in Values(T) :
                         LET set == set_property(Table, T, e, v)
                             dflt == get_property_or_default(Table, T, e, v)
                         IN /\ ~set.panic => get_entity_count(set.t) = now
                            /\ ~dflt.panic => get_entity_count(dflt.t) = now

\* Two entities were created, with ids 0 and 1, and Name was registered
\* since: a further add_entity without Name is refused and leaves the count,
\* one with Name returns id 2.
C20_Witness ==
  /\ get_entity_count(Table) = 2
  /\ is_registered(Table, "Name")
  /\ add_entity(Table, <<>>).ret = <<"Err">>
  /\ get_entity_count(add_entity(Table, <<>>).t) = 2
  /\ add_entity(Table, <<<<"Name", 88>>>>).ret = <<"Ok", 2>>
  /\ get_entity_count(add_entity(Table, <<<<"Name", 88>>>>).t) = 3

\* index_property on an enabled index changes no index.
EnabledIndexKept ==
  ~panicked =>
    \A T \in declared :
      IndexEnabled(Table, T) =>
        /\ ~index_property(Table, T).panic
        /\ index_property(Table, T).t.property_indexes = property_indexes

\* No step disables an enabled index.
StaysEnabled ==
  \A T \in declared :
    (T \in DOMAIN property_indexes /\ IsSome(property_indexes[T].lookup)) =>
      (T \in DOMAIN property_indexes' /\ IsSome(property_indexes'[T].lookup))

\* C21: an index that is enabled is enabled in every later state, and
\* index_property on an enabled index leaves its buckets and max_indexed
\* as they are.
C21_EnabledForever == [][StaysEnabled]_vars /\ []EnabledIndexKept

\* An index that covers two entities in a bucket: index_property leaves it.
C21_Witness ==
  \E T \in declared :
    /\ IndexEnabled(Table, T)
    /\ property_indexes[T].max_indexed = 2
    /\ \E k \in DOMAIN Unwrap(property_indexes[T].lookup) :
         Cardinality(Unwrap(property_indexes[T].lookup)[k]) = 2
    /\ index_property(Table, T).t.property_indexes[T] = property_indexes[T]

\* ---- a program that writes properties only when it creates an entity --------------
\* Every entity is created with a value for every stored property the
\* program declares; set_property, get_property_mut and
\* get_property_or_default are not called.
FullLists ==
  {list \in Tuples :
     /\ ~CarriesDerived(list)
     /\ \A T \in declared \cap StoredProperties : has_property(list, T)}

AddEntityFull ==
  /\ ~panicked
  /\ entity_count < MaxEntities
  /\ \E properties \in FullLists : Returns(add_entity(Table, properties))

CreationNext ==
  \/ AddEntityFull
  \/ GetProperty
  \/ IndexProperty
  \/ QueryEntities
  \/ QueryEntityCount
  \/ MatchEntity

CreationSpec == Init /\ [][CreationNext]_vars


\* The crate-internal index helpers, which no extension operation calls,
\* called between the operations of a program.
AddToIndexMaybe ==
  /\ ~panicked
  /\ \E entity_id \in EntityIds, T \in declared :
       Returns(add_to_index_maybe(Table, T, entity_id))

RemoveFromIndexMaybe ==
  /\ ~panicked
  /\ \E entity_id \in EntityIds, T \in declared :
       Returns(remove_from_index_maybe(Table, T, entity_id))

InternalNext ==
  \/ AddEntityFull
  \/ IndexProperty
  \/ QueryEntities
  \/ AddToIndexMaybe
  \/ RemoveFromIndexMaybe

InternalSpec == Init /\ [][InternalNext]_vars

\* The context with index_property called on the properties of the sequence
\* Ts, in order, and on no other property.
OnlyIndexed(t, Ts) ==
  LET E[i \in 0..Len(Ts)] ==
        IF i = 0 THEN WithoutIndexes(t) ELSE index_property(E[i - 1], Ts[i]).t
  IN E[Len(Ts)]

\* The entities whose column value equals the value of every predicate of q.
Matching(q) ==
  {e \in EntityIds : \A i \in 1..Len(q) : get_property_ref(Table, q[i][1], e) = Some(q[i][2])}

\* C22: in a program that writes stored properties only at entity creation,
\* a query over stored properties returns the entities whose values match
\* every predicate, the same set with the indexes as the program left them
\* (enabled before or after earlier queries), with no property indexed, and
\* with any one or all of the query's properties indexed.
C22_SameResultHoweverIndexed ==
  ~panicked =>
    \A q \in Tuples :
      (Len(q) >= 1 /\ ~CarriesDerived(q)) =>
        LET here == QE(q)
            plain == query_entities(WithoutIndexes(Table), q)
        IN /\ ~here.panic /\ Range(here.ret) = Matching(q)
           /\ ~plain.panic /\ Range(plain.ret) = Matching(q)
           /\ \A i \in 1..Len(q) :
                LET one == query_entities(OnlyIndexed(Table, <<q[i][1]>>), q) IN
                ~one.panic /\ Range(one.ret) = Matching(q)
           /\ LET all == query_entities(OnlyIndexed(Table, [i \in 1..Len(q) |-> q[i][1]]), q) IN
              ~all.panic /\ Range(all.ret) = Matching(q)

\* Two entities, a query over two properties of which the first is indexed
\* and covers both entities and the second is not indexed: one entity matches.
C22_Witness ==
  \E q \in Tuples :
    /\ Len(q) = 2
    /\ q[1][1] # q[2][1]
    /\ ~CarriesDerived(q)
    /\ entity_count = 2
    /\ IndexEnabled(Table, q[1][1])
    /\ property_indexes[q[1][1]].max_indexed = 2
    /\ ~IndexEnabled(Table, q[2][1])
    /\ Cardinality(Matching(q)) = 1
    /\ Range(QE(q).ret) = Matching(q)

Fresh(t) ==
  /\ get_entity_count(t) = 0
  /\ t.registered_derived_properties = <<>>
  /\ t.property_metadata = <<>>
  /\ DOMAIN t.property_indexes = {}

\* C26: on a context with no entity and no registered property,
\* query_entities returns the empty vector and query_entity_count returns 0
\* for every query (the unit query, one property, a tuple), without
\* panicking, also when the entity container does not exist yet.
C26_FreshContextQueriesEmpty ==
  (~panicked /\ Fresh(Table)) =>
    \A q \in Tuples :
      LET entities == QE(q)
          count == QC(q)
      IN /\ ~entities.panic /\ entities.ret = <<>>
         /\ ~count.panic /\ count.ret = 0

\* The context has no entity container, and a tuple query of full length
\* over a derived property returns the empty vector and creates the container.
C26_Witness ==
  /\ ~panicked
  /\ Fresh(Table)
  /\ ~has_data_container(Table)
  /\ \E q \in Tuples :
       /\ Len(q) = MaxTupleLen
       /\ \E i \in 1..Len(q) : is_derived(q[i][1])
       /\ ~QE(q).panic /\ QE(q).ret = <<>>
       /\ has_data_container(QE(q).t)
       /\ ~QC(q).panic /\ QC(q).ret = 0


\* Predicate i of q names a property whose index is enabled in t and holds no
\* bucket for the key of the predicate's value.
NoBucket(t, q, i) ==
  /\ IndexEnabled(t, q[i][1])
  /\ IndexValueOf(q[i][1], q[i][2]) \notin DOMAIN Unwrap(t.property_indexes[q[i][1]].lookup)

\* C27: when, at execution (after setup has refreshed the indexes), some
\* predicate of the query has an enabled index without a bucket for its key,
\* the query hands no entity to its accumulator: query_entities returns the
\* empty vector and query_entity_count 0, whatever the other predicates are
\* and whatever the position of the predicate in the tuple.
C27_MissingBucketEmptiesResult ==
  ~panicked =>
    \A q \in Tuples :
      LET s == setup(Table, q)
          found == execute_query(s.t, q)
          entities == QE(q)
          count == QC(q)
      IN (~s.panic /\ \E i \in 1..Len(q) : NoBucket(s.t, q, i)) =>
           /\ ~found.panic /\ found.calls = <<>>
           /\ ~entities.panic /\ entities.ret = <<>>
           /\ ~count.panic /\ count.ret = 0

\* A two-predicate query whose first predicate alone selects an entity and
\* whose second predicate has an enabled index without a bucket; and the same
\* with the two predicates swapped.
C27_Witness ==
  /\ ~panicked
  /\ \E q \in Tuples :
       LET s == setup(Table, q)
           swapped == <<q[2], q[1]>>
       IN /\ Len(q) = 2
          /\ q[1][1] # q[2][1]
          /\ ~s.panic
          /\ ~NoBucket(s.t, q, 1)
          /\ NoBucket(s.t, q, 2)
          /\ ~QE(<<q[1]>>).panic /\ QE(<<q[1]>>).ret # <<>>
          /\ QE(q).ret = <<>>
          /\ NoBucket(setup(Table, swapped).t, swapped, 1)
          /\ QE(swapped).ret = <<>>


\* The plan of execute_query for q on the context setup leaves: the collected
\* buckets and closures, and the candidates with the buckets left to check.
PlanOf(q) ==
  LET s == setup(Table, q)
      c == collect(s.t, q)
  IN [ok |-> ~s.panic /\ ~c.panic /\ ~c.returned,
      collected |-> c.indexes,
      unindexed |-> c.unindexed,
      candidates |-> to_check(s.t, c.indexes).candidates,
      remaining |-> to_check(s.t, c.indexes).indexes,
      count |-> s.t.entity_count]

\* C28: for a query with at least one predicate that reaches the filter
\* phase, when some bucket was collected the candidates are the ids of one
\* collected bucket, each once, and no collected bucket is smaller, so the
\* number of candidates is the minimum of the bucket sizes, and the buckets
\* left to check are the other collected ones; when no bucket was collected
\* the candidates are 0, 1, .., entity_count - 1.
C28_CandidatesAreSmallestBucket ==
  ~panicked =>
    \A q \in Tuples :
      LET plan == PlanOf(q)
          n == Len(plan.collected)
      IN (Len(q) > 0 /\ plan.ok) =>
           /\ n > 0 =>
                /\ \E i \in 1..n :
                     /\ Range(plan.candidates) = plan.collected[i]
                     /\ Len(plan.candidates) = Cardinality(plan.collected[i])
                     /\ plan.remaining = remove_at(plan.collected, i)
                /\ \A j \in 1..n : Len(plan.candidates) <= Cardinality(plan.collected[j])
           /\ n = 0 =>
                /\ Len(plan.candidates) = plan.count
                /\ \A k \in 1..plan.count : plan.candidates[k] = k - 1
                /\ plan.remaining = <<>>

\* Two buckets are collected, the first larger than the second, and the
\* candidates are the ids of the second.
C28_Witness ==
  /\ ~panicked
  /\ \E q \in Tuples :
       LET plan == PlanOf(q) IN
       /\ Len(q) = 2
       /\ plan.ok
       /\ Len(plan.collected) = 2
       /\ Cardinality(plan.collected[1]) > Cardinality(plan.collected[2])
       /\ Range(plan.candidates) = plan.collected[2]
       /\ plan.remaining = <<plan.collected[1]>>


\* Entity e passes predicate i of q in t: in the bucket of the predicate's
\* key when the index of the property is enabled, else by the key of the
\* value stored in the column.
Passes(t, q, i, e) ==
  LET T == q[i][1]
      key == IndexValueOf(T, q[i][2])
  IN IF IndexEnabled(t, T)
     THEN /\ key \in DOMAIN Unwrap(t.property_indexes[T].lookup)
          /\ e \in Unwrap(t.property_indexes[T].lookup)[key]
     ELSE /\ IsSome(get_property_ref(t, T, e))
          /\ key = IndexValueOf(T, Unwrap(get_property_ref(t, T, e)))

\* C29: for a query with at least one predicate, on the context setup
\* leaves, query_entities returns exactly the entities that are in the
\* bucket of every indexed predicate and whose column value has the key of
\* every unindexed predicate, each once; filtering from any collected bucket
\* instead of the chosen one gives the same set, and so does the query with
\* its predicates in the other order.
C29_ResultIsIntersection ==
  ~panicked =>
    \A q \in Tuples :
      LET s == setup(Table, q)
          entities == QE(q)
          plan == PlanOf(q)
          reversed == [i \in 1..Len(q) |-> q[Len(q) + 1 - i]]
          other == QE(reversed)
          from(i) == {e \in plan.collected[i] :
                        /\ \A j \in 1..Len(plan.collected) : e \in plan.collected[j]
                        /\ \A k \in 1..Len(plan.unindexed) : hash_lookup(s.t, plan.unindexed[k], e)}
      IN (Len(q) > 0 /\ ~entities.panic) =>
           /\ Range(entities.ret) =
                {e \in 0..(s.t.entity_count - 1) : \A i \in 1..Len(q) : Passes(s.t, q, i, e)}
           /\ Cardinality(Range(entities.ret)) = Len(entities.ret)
           /\ plan.ok => \A i \in 1..Len(plan.collected) : from(i) = Range(entities.ret)
           /\ ~other.panic
           /\ Range(other.ret) = Range(entities.ret)

\* A query of one indexed and one unindexed predicate over two entities:
\* the collected bucket holds both, the closure holds for one of them, and
\* the result is that one entity, in either order of the predicates.
C29_Witness ==
  /\ ~panicked
  /\ \E q \in Tuples :
       LET plan == PlanOf(q) IN
       /\ Len(q) = 2
       /\ plan.ok
       /\ Len(plan.collected) = 1 /\ Len(plan.unindexed) = 1
       /\ Cardinality(plan.collected[1]) = 2
       /\ Len(QE(q).ret) = 1
       /\ QE(<<q[2], q[1]>>).ret = QE(q).ret


\* C30: match_entity(id, q) that returns leaves the lookup and max_indexed
\* of every property's index as they were, and returns TRUE exactly when the
\* current value of every queried property of the entity (the column value,
\* or the value computed for a derived property) equals the predicate's
\* value, whatever the indexes hold; an id that names no entity matches no
\* predicate.
C30_MatchEntityReadsValuesOnly ==
  ~panicked =>
    LET now == Indexes(Table) IN
    \A q \in Tuples, e \in EntityIds \cup {entity_count} :
      LET matched == ME(e, q) IN
      ~matched.panic =>
        /\ Indexes(matched.t) = now
        /\ matched.ret = \A i \in 1..Len(q) : e \in Having(matched.t, q[i][1], q[i][2])

\* The index of T is enabled and stale for one entity (the entity is in the
\* bucket of a value it no longer has, so the query on its current value
\* misses it) and not yet populated for another; match_entity on the current
\* value of each returns TRUE and leaves the index as it is.
C30_Witness ==
  /\ ~panicked
  /\ \E T \in declared, e1 \in EntityIds, e2 \in EntityIds :
     \E v1 \in Values(T), v2 \in Values(T), old \in Values(T) :
       LET index == IndexOf(Table, T)
       IN /\ IndexEnabled(Table, T)
          /\ old # v1
          /\ e1 < index.max_indexed
          /\ IndexValueOf(T, old) \in DOMAIN Unwrap(index.lookup)
          /\ e1 \in Unwrap(index.lookup)[IndexValueOf(T, old)]
          /\ e2 >= index.max_indexed
          /\ ME(e1, <<<<T, v1>>>>).ret = TRUE
          /\ ME(e2, <<<<T, v2>>>>).ret = TRUE
          /\ ~QE(<<<<T, v1>>>>).panic
          /\ e1 \notin Range(QE(<<<<T, v1>>>>).ret)
          /\ Indexes(ME(e1, <<<<T, v1>>>>).t) = Indexes(Table)


\* The properties named by the predicates of q.
Named(q) == {q[i][1] : i \in 1..Len(q)}

\* The part of the table that no query may change: the entity count, the
\* columns and the initialization flag.
Stored(t) ==
  [entity_count |-> t.entity_count,
   properties_map |-> t.properties_map,
   is_initializing |-> t.is_initializing]

\* C31: query_entities, query_entity_count and match_entity that return
\* leave the entity count and every column as they were; the index of a
\* property the query does not name keeps its lookup and max_indexed;
\* match_entity keeps every index; and the context after query_entities or
\* query_entity_count is the context setup left, the execute phase having
\* changed nothing.
C31_QueriesOnlyRefreshNamedIndexes ==
  ~panicked =>
    LET now == Indexes(Table)
        kept == Stored(Table)
    IN \A q \in Tuples :
         LET s == setup(Table, q)
             entities == QE(q)
             count == QC(q)
         IN /\ ~entities.panic =>
                 /\ Stored(entities.t) = kept
                 /\ \A T \in declared \ Named(q) : IndexOf(entities.t, T) = now[T]
                 /\ entities.t = s.t
            /\ ~count.panic =>
                 /\ Stored(count.t) = kept
                 /\ \A T \in declared \ Named(q) : IndexOf(count.t, T) = now[T]
                 /\ count.t = s.t
            /\ \A e \in EntityIds :
                 LET matched == ME(e, q) IN
                 ~matched.panic => (Stored(matched.t) = kept /\ Indexes(matched.t) = now)

\* Two indexes are enabled and behind the entity count; a query naming one
\* property brings that index up to date and leaves the other behind.
C31_Witness ==
  /\ ~panicked
  /\ \E T \in declared, U \in declared :
       /\ T # U
       /\ IndexEnabled(Table, T) /\ IndexEnabled(Table, U)
       /\ property_indexes[T].max_indexed < entity_count
       /\ property_indexes[U].max_indexed < entity_count
       /\ \E v \in Values(T) :
            LET entities == QE(<<<<T, v>>>>) IN
            /\ ~entities.panic
            /\ entities.ret # <<>>
            /\ IndexOf(entities.t, T).max_indexed = entity_count
            /\ IndexOf(entities.t, U) = property_indexes[U]


\* The index of T in t covers every entity of t: max_indexed is the entity
\* count and each id from 0 on is in the bucket of its current value.
Covers(t, T) ==
  LET index == IndexOf(t, T) IN
  /\ IsSome(index.lookup)
  /\ index.max_indexed = t.entity_count
  /\ \A e \in 0..(t.entity_count - 1) :
       LET value == compute(t, T, e) IN
       /\ ~value.panic /\ IsSome(value.ret)
       /\ IndexValueOf(T, Unwrap(value.ret)) \in DOMAIN Unwrap(index.lookup)
       /\ e \in Unwrap(index.lookup)[IndexValueOf(T, Unwrap(value.ret))]

\* C32: a disabled index (lookup None) has max_indexed 0 in every reachable
\* state, and query_entities and query_entity_count naming its property
\* leave it so; and when index_property then enables it, the next query
\* naming the property that returns has put every existing entity, from id 0
\* on, into the bucket of its value.
C32_DisabledIndexStaysUnpopulated ==
  ~panicked =>
    \A T \in declared :
      ~IndexEnabled(Table, T) =>
        /\ IndexOf(Table, T) = Index_new
        /\ \A q \in Tuples :
             T \in Named(q) =>
               LET entities == QE(q)
                   count == QC(q)
                   enabled == index_property(Table, T)
                   later == query_entities(enabled.t, q)
                   counted == query_entity_count(enabled.t, q)
               IN /\ ~entities.panic => IndexOf(entities.t, T) = Index_new
                  /\ ~count.panic => IndexOf(count.t, T) = Index_new
                  /\ ~enabled.panic
                  /\ ~later.panic => Covers(later.t, T)
                  /\ ~counted.panic => Covers(counted.t, T)

\* The index of a registered property is disabled while MaxEntities entities
\* exist; a query naming it finds an entity by the scan and leaves the index
\* empty, and the same query after index_property covers every entity.
C32_Witness ==
  /\ ~panicked
  /\ entity_count = MaxEntities
  /\ \E T \in declared :
       /\ T \in DOMAIN property_indexes
       /\ ~IndexEnabled(Table, T)
       /\ \E v \in Values(T) :
            LET q == <<<<T, v>>>>
                later == query_entities(index_property(Table, T).t, q)
            IN /\ ~QE(q).panic /\ QE(q).ret # <<>>
               /\ IndexOf(QE(q).t, T) = Index_new
               /\ ~later.panic
               /\ Covers(later.t, T)
               /\ IndexOf(later.t, T).max_indexed = MaxEntities


\* The column of T in t: PropertyStore.values, empty when T has no store.
Column(t, T) == IF T \in DOMAIN t.properties_map THEN t.properties_map[T].values ELSE <<>>

\* No step removes a column or shortens one.
ColumnsGrow ==
  \A T \in DOMAIN properties_map :
    /\ T \in DOMAIN properties_map'
    /\ Len(properties_map'[T].values) >= Len(properties_map[T].values)

\* after is the column before with slot id + 1 possibly rewritten: its length
\* is the larger of the old length and id + 1, the old slots other than that
\* of id keep their content and the new ones hold None.
GrownFor(before, after, id) ==
  /\ Len(after) = (IF Len(before) > id + 1 THEN Len(before) ELSE id + 1)
  /\ \A i \in 1..Len(after) :
       i # id + 1 => after[i] = (IF i <= Len(before) THEN before[i] ELSE None)

\* What set_property, get_property_mut and get_property_or_default do to
\* the columns, for every stored property, every id up to one past the last
\* entity and every value.
WriteGrowsColumn ==
  ~panicked =>
    \A T \in declared \cap StoredProperties, id \in 0..entity_count :
      LET before == Column(Table, T)
          slot == get_property_mut(Table, T, id)
          others(t) == \A U \in declared \ {T} : Column(t, U) = Column(Table, U)
      IN /\ ~slot.panic
         /\ GrownFor(before, Column(slot.t, T), id)
         /\ Column(slot.t, T)[id + 1] = (IF id < Len(before) THEN before[id + 1] ELSE None)
         /\ others(slot.t)
         /\ \A v \in Values(T) :
              LET set == set_property(Table, T, id, v)
                  dflt == get_property_or_default(Table, T, id, v)
              IN /\ ~set.panic
                 /\ GrownFor(before, Column(set.t, T), id)
                 /\ Column(set.t, T)[id + 1] = Some(v)
                 /\ others(set.t)
                 /\ ~dflt.panic
                 /\ GrownFor(before, Column(dflt.t, T), id)
                 /\ others(dflt.t)

\* C33: no step of any operation sequence removes or shortens a column; and
\* get_property_mut, set_property and get_property_or_default for entity id
\* on a stored property leave the column with the larger of its old length
\* and id + 1, the new slots holding None, every slot other than that of id
\* and every other column unchanged.
C33_ColumnsOnlyGrow == [][ColumnsGrow]_vars /\ []WriteGrowsColumn

\* A column was grown past an entity that has no value: slot 0 holds None
\* and slot 1 a value, and writing slot 0 now keeps slot 1.
C33_Witness ==
  /\ ~panicked
  /\ \E T \in declared \cap StoredProperties :
       /\ Len(Column(Table, T)) = 2
       /\ Column(Table, T)[1] = None
       /\ IsSome(Column(Table, T)[2])
       /\ \E v \in Values(T) :
            /\ Column(set_property(Table, T, 0, v).t, T)[1] = Some(v)
            /\ Column(set_property(Table, T, 0, v).t, T)[2] = Column(Table, T)[2]


\* The buckets of the index of T in t: the map inside lookup, the empty map
\* for a disabled or missing index.
Buckets(t, T) ==
  IF IndexEnabled(t, T) THEN Unwrap(t.property_indexes[T].lookup) ELSE EmptyMap

NoEmptyBucket(t) ==
  \A T \in declared : \A k \in DOMAIN Buckets(t, T) : Buckets(t, T)[k] # {}

\* From the buckets before to the buckets after, entity_id was removed from
\* at most its buckets: no key is new, a key that is kept holds what is left
\* of its bucket, which is not empty, and a key is gone only when entity_id
\* was the last id of its bucket.
RemovedFrom(before, after, entity_id) ==
  /\ DOMAIN after \subseteq DOMAIN before
  /\ \A k \in DOMAIN before :
       IF k \in DOMAIN after
       THEN after[k] # {} /\ after[k] \in {before[k], before[k] \ {entity_id}}
       ELSE before[k] = {entity_id}

\* C34: in every reachable state, also of a program that calls the index
\* helpers, every key of the lookup of an enabled index maps to a non-empty
\* set; and remove_from_index_maybe and Index::remove_entity that return
\* leave no empty bucket: the key whose bucket held only the removed id is
\* gone from lookup and every other bucket is as it was.
C34_NoEmptyBucket ==
  ~panicked =>
    /\ NoEmptyBucket(Table)
    /\ \A T \in declared, e \in EntityIds :
         LET maybe == remove_from_index_maybe(Table, T, e)
             removed == Index_remove_entity(Table, T, e)
         IN /\ ~maybe.panic =>
                 /\ NoEmptyBucket(maybe.t)
                 /\ RemovedFrom(Buckets(Table, T), Buckets(maybe.t, T), e)
                 /\ \A U \in declared \ {T} : Buckets(maybe.t, U) = Buckets(Table, U)
            /\ ~removed.panic =>
                 /\ NoEmptyBucket(removed.t)
                 /\ RemovedFrom(Buckets(Table, T), Buckets(removed.t, T), e)
                 /\ \A U \in declared \ {T} : Buckets(removed.t, U) = Buckets(Table, U)

\* An index holds two buckets; remove_from_index_maybe takes the only id out
\* of one and that key leaves lookup, and Index::remove_entity takes the only
\* id out of the other and that key leaves lookup.
C34_Witness ==
  /\ ~panicked
  /\ \E T \in declared, e \in EntityIds :
       LET before == Buckets(Table, T)
           maybe == remove_from_index_maybe(Table, T, e)
           removed == Index_remove_entity(Table, T, e)
       IN /\ Cardinality(DOMAIN before) = 2
          /\ ~maybe.panic /\ ~removed.panic
          /\ Cardinality(DOMAIN Buckets(maybe.t, T)) = 1
          /\ Cardinality(DOMAIN Buckets(removed.t, T)) = 1
          /\ Buckets(maybe.t, T) # Buckets(removed.t, T)


\* ---- a program that registers its properties ------------------------------------
\* Every declared property type is known to the program, which registers
\* them in any order, through Property::register or index_property.
RegistrationInit ==
  /\ data_plugins = Context_new.data_plugins
  /\ is_initializing = Context_new.is_initializing
  /\ entity_count = Context_new.entity_count
  /\ properties_map = Context_new.properties_map
  /\ registered_derived_properties = Context_new.registered_derived_properties
  /\ dependency_map = Context_new.dependency_map
  /\ property_indexes = Context_new.property_indexes
  /\ property_metadata = Context_new.property_metadata
  /\ panicked = FALSE
  /\ declared = Properties
  /\ buf = IndexValueHasher_new
  /\ writes = 0

RegisterProperty ==
  /\ ~panicked
  /\ \E T \in declared : Returns(register(Table, T))

RegistrationNext ==
  \/ RegisterProperty
  \/ IndexProperty

RegistrationSpec == RegistrationInit /\ [][RegistrationNext]_vars

\* The properties reached from T through declared dependencies.
RECURSIVE DependencyClosure(_)
DependencyClosure(T) ==
  Range(DeclaredDependencies(T)) \cup
    UNION {DependencyClosure(U) : U \in Range(DeclaredDependencies(T))}

\* The properties whose reverse-dependency list in t holds D.
ListsHolding(t, D) == {A \in DOMAIN t.dependency_map : D \in Range(t.dependency_map[A])}

\* C35: a registered derived property D is in dependency_map[A] exactly for
\* the stored properties A reached from D through declared dependencies, a
\* derived dependency standing for its own dependencies, whether or not
\* those are registered; an unregistered one is in no list; and registering
\* any property T leaves every list as it is apart from the lists T enters.
C35_DependentsOfStoredClosure ==
  ~panicked =>
    /\ \A D \in declared \cap DerivedProperties :
         ListsHolding(Table, D) =
           (IF is_registered(Table, D) THEN DependencyClosure(D) \cap StoredProperties ELSE {})
    /\ \A T \in declared :
         LET r == register(Table, T) IN
         /\ ~r.panic
         /\ \A D \in declared \ {T} : ListsHolding(r.t, D) = ListsHolding(Table, D)
         /\ is_derived(T) => ListsHolding(r.t, T) = DependencyClosure(T) \cap StoredProperties
         /\ ~is_derived(T) => ListsHolding(r.t, T) = {}

\* AtRisk is registered while Senior, its derived dependency, is not: AtRisk
\* is in the lists of Age and RiskCategory and in no other list.
C35_Witness ==
  /\ ~panicked
  /\ is_registered(Table, "AtRisk")
  /\ ~is_registered(Table, "Senior")
  /\ is_registered(Table, "Name")
  /\ ListsHolding(Table, "AtRisk") = {"Age", "RiskCategory"}
  /\ ListsHolding(Table, "Senior") = {}


\* C36: an add_entity that returns the missing-value error leaves the entity
\* count, every column, every index, the initialization flag and the
\* registrations as they were (only the entity container may have been
\* created), and every add_entity that then succeeds returns the id equal to
\* the entity count at the failed call.
C36_RefusedAddEntityChangesNothing ==
  ~panicked =>
    \A props \in Tuples :
      LET added == add_entity(Table, props) IN
      (~added.panic /\ added.ret = <<"Err">>) =>
        /\ Stored(added.t) = Stored(Table)
        /\ Indexes(added.t) = Indexes(Table)
        /\ added.t = get_data_container_mut(Table)
        /\ \A next \in Tuples :
             LET again == add_entity(added.t, next) IN
             (~again.panic /\ again.ret # <<"Err">>) =>
               /\ again.ret = <<"Ok", get_entity_count(Table)>>
               /\ again.t.entity_count = entity_count + 1

\* The required Name is registered, one entity exists and an index holds it:
\* a list without Name is refused and the list with Name then gets id 1.
C36_Witness ==
  /\ ~panicked
  /\ entity_count = 1
  /\ is_registered(Table, "Name")
  /\ \E T \in declared : IndexEnabled(Table, T) /\ property_indexes[T].max_indexed = 1
  /\ \E props \in Tuples, next \in Tuples :
       LET added == add_entity(Table, props) IN
       /\ added.ret = <<"Err">>
       /\ added.t.entity_count = 1
       /\ add_entity(added.t, next).ret = <<"Ok", 1>>


\* Some declared dependency of D has no value for entity e.
DependencyMissing(D, e) ==
  \E i \in 1..Len(DeclaredDependencies(D)) :
    LET value == compute(Table, DeclaredDependencies(D)[i], e) IN
    value.panic \/ IsNone(value.ret)

\* C37: when a declared dependency of the derived property D has no value
\* for entity e, get_property of D for e panics, match_entity of e against a
\* query whose first predicate is on D panics, and query_entities and
\* query_entity_count naming D panic when the index of D is enabled and has
\* not covered e; and a get_property of a derived property that returns
\* never returns None.
C37_DerivedReadPanicsOnMissingDependency ==
  ~panicked =>
    \A D \in declared \cap DerivedProperties, e \in EntityIds :
      LET got == get_property(Table, D, e) IN
      /\ ~got.panic => IsSome(got.ret)
      /\ DependencyMissing(D, e) =>
           /\ got.panic
           /\ \A q \in Tuples :
                /\ (Len(q) > 0 /\ q[1][1] = D) => ME(e, q).panic
                /\ (/\ D \in Named(q)
                    /\ IndexEnabled(Table, D)
                    /\ e >= property_indexes[D].max_indexed) =>
                     (QE(q).panic /\ QC(q).panic)

\* An entity has no Age while the index of Senior is enabled and has not
\* covered it: get_property, match_entity and the query on Senior all panic
\* for it.
C37_Witness ==
  /\ ~panicked
  /\ \E D \in declared \cap DerivedProperties, e \in EntityIds :
       /\ DependencyMissing(D, e)
       /\ IndexEnabled(Table, D)
       /\ e >= property_indexes[D].max_indexed
       /\ get_property(Table, D, e).panic
       /\ ME(e, <<<<D, 1>>>>).panic
       /\ QE(<<<<D, 1>>>>).panic
       /\ \E other \in EntityIds : ~DependencyMissing(D, other)


\* C38: in every reachable state, for every enabled index, no entity id is
\* in two buckets, every id in a bucket is below max_indexed, and max_indexed
\* is at most the entity count.
C38_IndexWellFormed ==
  \A T \in declared :
    IndexEnabled(Table, T) =>
      LET map == Buckets(Table, T)
          max_indexed == property_indexes[T].max_indexed
      IN /\ \A k1 \in DOMAIN map, k2 \in DOMAIN map : k1 # k2 => map[k1] \cap map[k2] = {}
         /\ \A k \in DOMAIN map : \A e \in map[k] : e < max_indexed
         /\ max_indexed <= get_entity_count(Table)

\* An index covers two of two entities in two buckets, and one of them has
\* since been given the value of the other bucket: it is still in one bucket.
C38_Witness ==
  /\ ~panicked
  /\ entity_count = 2
  /\ \E T \in declared \cap StoredProperties :
       /\ IndexEnabled(Table, T)
       /\ property_indexes[T].max_indexed = 2
       /\ Cardinality(DOMAIN Buckets(Table, T)) = 2
       /\ \E v \in Values(T) :
            /\ get_property_ref(Table, T, 0) = Some(v)
            /\ get_property_ref(Table, T, 1) = Some(v)


\* C39: add_to_index_maybe(T, e) on an enabled index puts e into the bucket
\* of the key of e's current value v, the key that query_entities(T = v)
\* probes; and after set_property(e, T = v) followed by
\* add_to_index_maybe(T, e), query_entities(T = v) returns e.
C39_HelperInsertsUnderQueryKey ==
  ~panicked =>
    \A T \in declared \cap StoredProperties, e \in EntityIds :
      IndexEnabled(Table, T) =>
        /\ LET value == compute(Table, T, e)
               added == add_to_index_maybe(Table, T, e)
           IN (~value.panic /\ IsSome(value.ret) /\ ~added.panic) =>
                /\ IndexValueOf(T, Unwrap(value.ret)) \in DOMAIN Buckets(added.t, T)
                /\ e \in Buckets(added.t, T)[IndexValueOf(T, Unwrap(value.ret))]
        /\ \A v \in Values(T) :
             LET written == set_property(Table, T, e, v)
                 added == add_to_index_maybe(written.t, T, e)
                 found == query_entities(added.t, <<<<T, v>>>>)
             IN (~added.panic /\ ~found.panic) => e \in Range(found.ret)

\* ---- a value being hashed into an IndexValueHasher ----------------------------------
\* The slices that the Hash implementations of the integers hand to write:
\* the little-endian bytes of a u8, of a u64 (usize, isize) and of a u128,
\* here of the numbers 0 and 1.
LeBytes(v, n) == [i \in 1..n |-> IF i = 1 THEN v ELSE 0]

Chunks == {LeBytes(v, n) : v \in {0, 1}, n \in {1, 8, 16}}

\* The byte streams that at most n calls of write produce.
RECURSIVE StreamsOf(_)
StreamsOf(n) ==
  IF n = 0 THEN {IndexValueHasher_new}
  ELSE StreamsOf(n - 1) \cup {write(s, bytes) : s \in StreamsOf(n - 1), bytes \in Chunks}

ByteStreams == StreamsOf(MaxWrites)

HasherInit ==
  /\ data_plugins = Context_new.data_plugins
  /\ is_initializing = Context_new.is_initializing
  /\ entity_count = Context_new.entity_count
  /\ properties_map = Context_new.properties_map
  /\ registered_derived_properties = Context_new.registered_derived_properties
  /\ dependency_map = Context_new.dependency_map
  /\ property_indexes = Context_new.property_indexes
  /\ property_metadata = Context_new.property_metadata
  /\ panicked = FALSE
  /\ declared = {}
  /\ buf = IndexValueHasher_new
  /\ writes = 0

HasherWrite ==
  /\ writes < MaxWrites
  /\ \E bytes \in Chunks : buf' = write(buf, bytes)
  /\ writes' = writes + 1
  /\ UNCHANGED <<data_plugins, is_initializing, entity_count, properties_map,
                 registered_derived_properties, dependency_map, property_indexes,
                 property_metadata, panicked, declared>>

HasherNext == HasherWrite

HasherSpec == HasherInit /\ [][HasherNext]_vars

\* C24: the key of the stream in the hasher equals the key of another
\* stream exactly when the two streams are equal, whatever their lengths.
C24_KeyEqualIffStreamEqual ==
  \A other \in ByteStreams : (IndexValue_new(buf) = IndexValue_new(other)) <=> (buf = other)

\* C25: a byte stream of at most 16 bytes is stored as the Fixed variant, its
\* bytes followed by zeros up to 16 bytes in little-endian order (byte i of
\* the stream is byte i of the 128-bit value); a stream of 17 bytes or more is
\* stored unchanged as the Variable variant. 16 bytes is Fixed, 17 is Variable.
C25_FixedUpTo16VariableFrom17 ==
  LET key == IndexValue_new(buf)
  IN /\ Len(buf) <= 16 =>
          /\ key.kind = "Fixed"
          /\ Len(key.bytes) = 16
          /\ \A i \in 1..16 : key.bytes[i] = IF i <= Len(buf) THEN buf[i] ELSE 0
     /\ Len(buf) >= 17 =>
          /\ key.kind = "Variable"
          /\ key.bytes = buf
     /\ Len(buf) = 16 => key.kind = "Fixed"
     /\ Len(buf) = 17 => key.kind = "Variable"

\* A 17-byte stream with a non-zero last byte has been accumulated and is
\* stored as Variable, after a 16-byte stream was stored as Fixed.
C25_Witness ==
  /\ Len(buf) = 17
  /\ buf[17] = 1
  /\ IndexValue_new(buf).kind = "Variable"
  /\ IndexValue_new(SubSeq(buf, 1, 16)).kind = "Fixed"

====
